---- MODULE Spec2Model ----
(***************************************************************************)
(* Model of the node-resident traffic monitor (arnaav00/daemonset-capture): *)
(* the writer thread (TrafficMonitor._write_outputs / _write_endpoint), the *)
(* de-dup cache (EndpointDeduplicator), the file-backed service registry    *)
(* (ServiceMapper), the per-service onboarding locks and the background     *)
(* workers (_auto_onboard_service, _push_endpoint_to_dev_website).          *)
(*                                                                         *)
(* Granularity.  The writer is one thread; every worker is a thread of its  *)
(* own.  A step of the model is one access to shared state (the in-memory   *)
(* registry document, the overlay file, the lock table, the de-dup cache)   *)
(* together with the thread-local code around it.  ServiceMapper's methods  *)
(* that take config_lock are one step each; _load_config takes no lock and  *)
(* rebuilds self.config from an empty dict, so it is two steps.  The calls  *)
(* to the inventory are answered by the environment: every outcome the     *)
(* client code distinguishes is a nondeterministic choice.                  *)
(***************************************************************************)
EXTENDS Integers, Sequences, FiniteSets, TLC

VARIABLES
    now,                \* wall clock (datetime.utcnow()), in seconds
    ncap,               \* number of captures emitted by the decoder so far
    output_queue,       \* TrafficMonitor.output_queue
    local_log,          \* the append-only JSONL output file
    enable_integration, \* TrafficMonitor.enable_integration
    wpc,                \* position of the writer thread inside _write_endpoint
    wcap,               \* the capture the writer is processing
    wtrace,             \* what the writer has done for wcap so far, in order
    seen_endpoints,     \* EndpointDeduplicator.seen_endpoints
    last_cleanup,       \* EndpointDeduplicator._last_cleanup
    wlog,               \* per capture id: what the writer reported for it
    mount,              \* the read-only configuration document (config_path)
    overlay,            \* serviceMappings of the writable document (write_path)
    config,             \* ServiceMapper.config, the in-memory document
    onboarding_locks,   \* TrafficMonitor._onboarding_locks
    thr,                \* background worker started for each capture id
    oas_posts,          \* per service: POST /v1/applications/oas issued so far
    tcp_streams,        \* TrafficMonitor.tcp_streams: flow key -> buffered bytes
    stream_last_packet_time, \* TrafficMonitor.stream_last_packet_time
    http_connections,   \* TrafficMonitor.http_connections: flow key -> request
    wire,               \* per direction: bytes not yet seen by the capture loop
    sent,               \* per direction: bytes the capture loop has seen
    path,               \* argument of DevWebsiteAPIClient._parameterize_path
    parameterized,      \* its results so far, in order
    api_key,            \* _write_endpoint's local api_key (None outside it)
    thread_api_key,     \* per capture id: the api_key its worker was started with
    overlay_malformed,  \* whether the writable document is not valid JSON
    backups,            \* number of files write_path.backup.<time> written
    api_calls,          \* the requests the inventory has received, in order
    _endpoint_cache,    \* DevWebsiteAPIClient._endpoint_cache
    _cache_lock,        \* DevWebsiteAPIClient._cache_lock: time of the last fetch
    listed,             \* what the calls of list_endpoints returned, in order
    args,               \* arguments of the function a specification applies
    outcome,            \* what that function returned (None before the call)
    pending,            \* per capture interface: the packets it has yet to hand over
    sniffed,            \* per capture interface: the packets its thread has handled
    _sessions,          \* SessionStore._sessions of the capture analyzer service
    reply               \* the analyzer's answer to the last request it served

\* State of the writer, the registry and the workers.
writer_vars == <<now, ncap, output_queue, local_log, enable_integration, wpc,
                 wcap, wtrace, seen_endpoints, last_cleanup, wlog, mount,
                 overlay, config, onboarding_locks, thr, oas_posts>>

\* State of the packet decoder and of the traffic it sees.
decoder_vars == <<tcp_streams, stream_last_packet_time, http_connections,
                  wire, sent>>

\* Argument and results of the path parameterizer.
param_vars == <<path, parameterized>>

\* The api_key the writer read and the one each worker carries.
key_vars == <<api_key, thread_api_key>>

\* The writable document as a file: its well-formedness, its backups.
file_vars == <<overlay_malformed, backups>>

\* The inventory's request log and the client's endpoint listing cache.
inventory_vars == <<api_calls, _endpoint_cache, _cache_lock, listed>>

\* Arguments and result of a function applied on its own.
function_vars == <<args, outcome>>

\* The packets on the capture interfaces (one sniffing thread each).
sniff_vars == <<pending, sniffed>>

\* The sessions of the capture analyzer service.
session_vars == <<_sessions, reply>>

vars == <<writer_vars, decoder_vars, param_vars, key_vars, file_vars,
          inventory_vars, function_vars, sniff_vars, session_vars>>

(***************************************************************************)
(* Bounds of the model and constants of the program.                       *)
(***************************************************************************)
MaxCaptures == 3
LiveMaxCaptures == 2
MaxQueue == 1
MaxTime == 3600
MaxFlowTime == 80
MaxPathLen == 4

ttl_seconds == 3600
cleanup_interval == 300

None == "None"
Services == {"s1", "s2"}
AllServices == Services \cup {"unknown"}
AppIds == {"A1"}
NewAppIds == {"A2"}
InstIds == {"I1"}
TickSteps == {1800}
DedupTickSteps == {200, 3400}
FlowTickSteps == {40}

(***************************************************************************)
(* Captures.  The decoder stamps a fresh uuid on every capture; the fields *)
(* below are the ones the writer, the de-dup cache and the workers read.   *)
(***************************************************************************)
Capture(s, m, e, t) ==
    [service |-> s, method |-> m, endpoint |-> e, type |-> t,
     status_code |-> "", request_headers |-> {}]

CaptureInputs ==
    {Capture("s1", "GET", "/a", "request"), Capture("s1", "GET", "/b", "request"),
     Capture("s2", "GET", "/a", "request"),
     Capture("unknown", "GET", "/a", "request"),
     Capture("s1", "GET", "/a", "response")}

WithId(c, i) ==
    [id |-> i, service |-> c.service, method |-> c.method,
     endpoint |-> c.endpoint, type |-> c.type, status_code |-> c.status_code,
     request_headers |-> c.request_headers]

NoCapture == WithId(Capture(None, None, None, None), 0)

(***************************************************************************)
(* EndpointDeduplicator                                                    *)
(***************************************************************************)
ImportantHeaders == {"Content-Type", "Accept", "Authorization"}

\* The key string that is hashed: the md5 digest is taken to be injective
\* on key strings, so the fingerprint is the tuple of the key parts.
_generate_hash(endpoint_data) ==
    <<endpoint_data.service, endpoint_data.method, endpoint_data.endpoint,
      endpoint_data.status_code, endpoint_data.type,
      IF endpoint_data.type = "request"
      THEN {h \in endpoint_data.request_headers : h[1] \in ImportantHeaders}
      ELSE {}>>

\* The entries that survive a sweep at time t.
_cleanup_expired(seen, t) ==
    [h \in {k \in DOMAIN seen : ~(t - seen[k] >= ttl_seconds)} |-> seen[h]]

CleanupDue(t, last) == (t - last) > cleanup_interval

\* A cache for which no entry is recent.
WithinTTL_never(age) == FALSE

\* A cache for which an entry of age TTL is still recent.
WithinTTL_inclusive(age) == age <= ttl_seconds

\* deduplicator.py:74: age < self.ttl_seconds
WithinTTL(age) == age < ttl_seconds

\* One call of is_duplicate: the answer and the cache afterwards.  The
\* caller reads the clock at line 64 (t); the sweep reads it again at line
\* 88 (t2 >= t) and measures the ages it removes against that second read.
is_duplicate_read_twice(seen, last, endpoint_data, t, t2) ==
    LET h == _generate_hash(endpoint_data)
        due == CleanupDue(t, last)
        swept == IF due THEN _cleanup_expired(seen, t2) ELSE seen
        last2 == IF due THEN t ELSE last
        hit == h \in DOMAIN swept /\ WithinTTL(t - swept[h])
    IN  IF hit
        THEN [result |-> TRUE, seen |-> swept, last |-> last2]
        ELSE [result |-> FALSE,
              seen |-> [k \in DOMAIN swept \cup {h} |->
                            IF k = h THEN t ELSE swept[k]],
              last |-> last2]

\* A call during which the clock does not advance between the two reads:
\* the case of every specification whose clock moves in steps of minutes.
is_duplicate(seen, last, endpoint_data, t) ==
    is_duplicate_read_twice(seen, last, endpoint_data, t, t)

(***************************************************************************)
(* ServiceMapper: the registry documents.  A document is a record; a key   *)
(* that is absent (or null) is None.  EmptyDict is {}.                     *)
(***************************************************************************)
Mapping(a, i) == [appId |-> a, instanceId |-> i]

\* No entry for a service in serviceMappings.
NoMap == Mapping(None, None)

NoMappings == [s \in AllServices |-> NoMap]

EmptyDict ==
    [apiKey |-> None, autoOnboardNewServices |-> None,
     serviceMappings |-> NoMappings]

DefaultConfig ==
    [apiKey |-> None, autoOnboardNewServices |-> "False",
     serviceMappings |-> NoMappings]

\* dict.update: the entries of upd replace those of base.
DictUpdate(base, upd) ==
    [s \in AllServices |-> IF upd[s] # NoMap THEN upd[s] ELSE base[s]]

\* _load_config from "if os.path.exists(self.config_path)" on: the mount
\* document, the overlay's serviceMappings merged over it, the defaults
\* when nothing was loaded.
_load_config(mnt, ovl) ==
    LET c == [mnt EXCEPT !.serviceMappings = DictUpdate(mnt.serviceMappings, ovl)]
    IN  IF c = EmptyDict THEN DefaultConfig ELSE c

\* A save in which the in-memory mappings replace those of the file.
_save_config_memory_wins(maps, ovl) == DictUpdate(ovl, maps)

\* What _save_config writes to the overlay: the in-memory mappings, updated
\* with the mappings the overlay file already holds.
_save_config(maps, ovl) == DictUpdate(maps, ovl)

get_api_key(cfg) == cfg.apiKey

\* A mapper for which auto-onboarding is always switched on.
is_auto_onboard_always(cfg) == TRUE

\* service_mapper.py:208-210
is_auto_onboard_enabled(cfg) == cfg.autoOnboardNewServices = "True"

\* get_service_mapping: [config |-> the in-memory document afterwards,
\*                       result |-> the mapping or None].
get_service_mapping(cfg, mnt, ovl, service_name) ==
    IF cfg.apiKey = None
    THEN [config |-> cfg, result |-> NoMap]
    ELSE LET cur == [apiKey |-> cfg.apiKey,
                     autoOnboardNewServices |->
                         IF cfg.autoOnboardNewServices # None
                         THEN cfg.autoOnboardNewServices
                         ELSE mnt.autoOnboardNewServices,
                     serviceMappings |-> DictUpdate(mnt.serviceMappings, ovl)]
             m == cur.serviceMappings[service_name]
         IN  [config |-> cur,
              result |-> IF m.appId # None /\ m.instanceId # None
                         THEN m ELSE NoMap]

\* set_service_mapping: [config |-> ..., overlay |-> ...] afterwards.
set_service_mapping(cfg, ovl, service_name, app_id, instance_id) ==
    LET maps == [cfg.serviceMappings EXCEPT
                    ![service_name] = Mapping(app_id, instance_id)]
        saved == _save_config(maps, ovl)
    IN  [config |-> [cfg EXCEPT !.serviceMappings = saved], overlay |-> saved]

(***************************************************************************)
(* The inventory, as seen by DevWebsiteAPIClient.                          *)
(***************************************************************************)
\* GET /v1/applications as get_application_by_name returns it: NotFound
\* (the call failed, or no application has the name: the method returns
\* None for both) or the application found, with the id of its first
\* instance (None: it has no instances).
NotFound == [applicationId |-> None, instanceId |-> None]

ListResults ==
    {NotFound} \cup {[applicationId |-> a, instanceId |-> i] :
                        a \in AppIds, i \in InstIds \cup {None}}

\* AppIds: the ids of the applications the listing returns; NewAppIds: the
\* ids the upload returns for an application it creates.
\* POST /v1/applications/{appId}/instances/batch: an instance id or None.
InstanceResults == InstIds \cup {None}

\* create_application: every [posted, result] the call can end with.
\* posted: whether POST /v1/applications/oas was issued; result: NoMap for
\* a return of None.  existing is what its own get_application_by_name
\* returned, upload the applicationId of the upload's response (None: the
\* POST failed), instance what _create_instance_for_app returned.
create_application(existing, upload, instance) ==
    IF existing # NotFound
    THEN IF existing.instanceId # None
         THEN [posted |-> FALSE,
               result |-> Mapping(existing.applicationId, existing.instanceId)]
         ELSE [posted |-> FALSE,
               result |-> IF instance # None
                          THEN Mapping(existing.applicationId, instance)
                          ELSE NoMap]
    ELSE [posted |-> TRUE,
          result |-> IF upload # None /\ instance # None
                     THEN Mapping(upload, instance) ELSE NoMap]

(***************************************************************************)
(* Threads and locks.                                                      *)
(***************************************************************************)
NoThread ==
    [pc |-> "none", kind |-> "none", svc |-> None, app |-> None,
     inst |-> None, rel |-> 0, mapped0 |-> FALSE, res |-> "none"]

\* A lock whose acquire succeeds also when it is held.
acquire_reentrant(l) == TRUE

\* threading.Lock.acquire(blocking=False)
acquire(l) == l # "held"

\* A release that leaves the lock as it is.
release_forgotten(locks, s) == locks

\* threading.Lock.release()
release(locks, s) == [locks EXCEPT ![s] = "free"]

\* threading.Thread(target=self._push_endpoint_to_dev_website, ...).start()
PushThread(s, m, mapped) ==
    [pc |-> "push", kind |-> "push", svc |-> s, app |-> m.appId,
     inst |-> m.instanceId, rel |-> 0, mapped0 |-> mapped, res |-> "none"]

\* threading.Thread(target=self._auto_onboard_service, ...).start()
OnboardThread(s, mapped) ==
    [pc |-> "load1", kind |-> "onboard", svc |-> s, app |-> None,
     inst |-> None, rel |-> 0, mapped0 |-> mapped, res |-> "none"]

\* A worker that has returned.
Finished(t, r, released) ==
    [t EXCEPT !.pc = "done", !.app = None, !.inst = None, !.res = r,
              !.rel = t.rel + released]

CapIds == 1..ncap

\* The writer's record of a capture: whether is_duplicate was called for
\* it, when, and its answer; whether the per-service lock was found held.
\* mapped: whether the overlay held a mapping of the capture's service
\* when the writer took the capture from the queue; failed: whether an
\* onboarding attempt for that service had ended in error by then.
NoCall ==
    [called |-> FALSE, t |-> 0, result |-> FALSE, busy |-> FALSE,
     mapped |-> FALSE, failed |-> FALSE]

(***************************************************************************)
(* The packet decoder (TrafficMonitor._process_tcp_data and the parsers it *)
(* calls).  A byte string is a sequence of units: a start line, a header   *)
(* line, the separator CRLF CRLF and a body byte are one unit each, so     *)
(* that lengths, Content-Length values and split points count units.  The  *)
(* capture loop hands the decoder one non-empty TCP payload at a time.     *)
(***************************************************************************)
CRLFCRLF == "CRLFCRLF"

\* header_lines[0] of a request: method and path (request_line.split()).
RequestLine ==
    ("GET /a" :> [method |-> "GET", path |-> "/a"]) @@
    ("POST /b" :> [method |-> "POST", path |-> "/b"])

\* header_lines[0] of a response: parts[1] is the status code.
StatusLine ==
    ("HTTP/1.1 200" :> [status_code |-> 200])

\* A header line "key: value" (line.split(b':', 1)).
HeaderLine ==
    ("Content-Length: 1" :> [key |-> "Content-Length", value |-> 1]) @@
    ("Content-Length: 2" :> [key |-> "Content-Length", value |-> 2]) @@
    ("CONTENT-LENGTH: 1" :> [key |-> "CONTENT-LENGTH", value |-> 1])

\* str.lower() on the header names above.
lower(key) ==
    IF key \in {"Content-Length", "CONTENT-LENGTH", "content-length"}
    THEN "content-length" ELSE key

\* Body bytes: two ASCII letters, the two bytes of U+00E9 in UTF-8, and the
\* byte of U+00E9 in Latin-1, which is not UTF-8.
BodyBytes == {"x", "y", "C3", "A9", "E9"}

\* bytes.decode('utf-8', errors='replace'): the string, character by
\* character; a byte that is not part of a well-formed sequence becomes
\* U+FFFD.
RECURSIVE decode(_)
decode(body_data) ==
    IF body_data = <<>> THEN <<>>
    ELSE IF Len(body_data) >= 2 /\ body_data[1] = "C3" /\ body_data[2] = "A9"
         THEN <<"U+00E9">> \o decode(SubSeq(body_data, 3, Len(body_data)))
    ELSE IF body_data[1] \in {"C3", "A9", "E9"}
         THEN <<"U+FFFD">> \o decode(Tail(body_data))
    ELSE <<body_data[1]>> \o decode(Tail(body_data))

\* len(s.encode('utf-8')) of a decoded string.
RECURSIVE byte_count(_)
byte_count(s) ==
    IF s = <<>> THEN 0
    ELSE (CASE s[1] = "U+00E9" -> 2
            [] s[1] = "U+FFFD" -> 3
            [] OTHER -> 1) + byte_count(Tail(s))

\* Position of the first CRLF CRLF in data, 0 when there is none.
HeaderEnd(data) ==
    IF \E i \in 1..Len(data) : data[i] = CRLFCRLF
    THEN CHOOSE i \in 1..Len(data) :
            /\ data[i] = CRLFCRLF
            /\ \A j \in 1..(i - 1) : data[j] # CRLFCRLF
    ELSE 0

\* data.split(b'\r\n\r\n', 1): the header part, its lines after the first,
\* and everything after the separator.
header_data(data) == SubSeq(data, 1, HeaderEnd(data) - 1)
header_lines_1(data) == SubSeq(data, 2, HeaderEnd(data) - 1)
all_body_data(data) == SubSeq(data, HeaderEnd(data) + 1, Len(data))
header_length(data) == Len(header_data(data)) + 1

\* The positions, in header_lines[1:], of the lines a Content-Length scan
\* accepts: a "key: value" line whose key the scan accepts.
ContentLengthLines(data, accepted) ==
    {i \in 1..Len(header_lines_1(data)) :
        /\ header_lines_1(data)[i] \in DOMAIN HeaderLine
        /\ HeaderLine[header_lines_1(data)[i]].key \in accepted}

\* key.lower() == 'content-length' (lines 520, 618, 762), and
\* b'Content-Length:' in line or b'content-length:' in line (line 916).
AnySpelling ==
    {key \in {HeaderLine[l].key : l \in DOMAIN HeaderLine} :
        lower(key) = "content-length"}
TwoSpellings == {"Content-Length", "content-length"}

NoLength == -1

\* A scan that stops at the first accepted line (break).
FirstContentLength(data, accepted) ==
    LET S == ContentLengthLines(data, accepted)
    IN  IF S = {} THEN NoLength
        ELSE HeaderLine[header_lines_1(data)[CHOOSE i \in S : \A j \in S : i <= j]].value

\* A scan that runs to the last line and keeps the last value.
LastContentLength(data, accepted) ==
    LET S == ContentLengthLines(data, accepted)
    IN  IF S = {} THEN NoLength
        ELSE HeaderLine[header_lines_1(data)[CHOOSE i \in S : \A j \in S : i >= j]].value

\* _is_complete_http_message: (is_complete, expected_length).
_is_complete_http_message(data) ==
    IF HeaderEnd(data) = 0 THEN [is_complete |-> FALSE, expected |-> NoLength]
    ELSE LET content_length == FirstContentLength(data, AnySpelling)
         IN  IF content_length # NoLength
             THEN [is_complete |-> Len(data) >= header_length(data) + content_length,
                   expected |-> header_length(data) + content_length]
             ELSE [is_complete |-> TRUE, expected |-> NoLength]

\* One TCP connection between a client and a server, seen in both
\* directions; connection_key is "src-dst".
Addresses == {"client", "server"}
FlowKeys == {"client-server", "server-client"}
src_ip(connection_key) ==
    IF connection_key = "client-server" THEN "client" ELSE "server"
dst_ip(connection_key) ==
    IF connection_key = "client-server" THEN "server" ELSE "client"
reverse_key(connection_key) ==
    IF connection_key = "client-server" THEN "server-client" ELSE "client-server"

\* _get_service_name_from_ip: what the cluster answers for an address.
_get_service_name_from_ip(ip_address) ==
    IF ip_address = "server" THEN "s1" ELSE "unknown"

\* _extract_service_name: a Host that is an address is resolved through the
\* destination address, any other Host names the service.
_extract_service_name(host, dst) ==
    IF host \in Addresses THEN _get_service_name_from_ip(dst) ELSE host

\* The dictionary of headers: key as spelled -> value, a later line of the
\* same spelling replacing an earlier one.
Headers(data) ==
    LET lines == header_lines_1(data)
        P == {i \in 1..Len(lines) : lines[i] \in DOMAIN HeaderLine}
        K == {HeaderLine[lines[i]].key : i \in P}
    IN  [key \in K |->
            HeaderLine[lines[CHOOSE i \in P :
                /\ HeaderLine[lines[i]].key = key
                /\ \A j \in P : HeaderLine[lines[j]].key = key => j <= i]].value]

\* endpoint_data of the two parsers, and None.
NoEndpoint ==
    [type |-> "None", service |-> "", method |-> "", endpoint |-> "",
     host |-> "", status_code |-> "", flow |-> "", request_headers |-> <<>>,
     request_body |-> <<>>, response_body |-> <<>>]

\* _parse_http_request(data, src_ip, dst_ip, src_port, dst_port)
_parse_http_request(data, connection_key) ==
    IF data = <<>> \/ data[1] \notin DOMAIN RequestLine THEN NoEndpoint
    ELSE IF ~_is_complete_http_message(data).is_complete THEN NoEndpoint
    ELSE LET content_length == LastContentLength(data, AnySpelling)
             host == dst_ip(connection_key)
         IN  IF content_length # NoLength /\ Len(all_body_data(data)) < content_length
             THEN NoEndpoint
             ELSE LET body_data ==
                        IF content_length # NoLength
                        THEN SubSeq(all_body_data(data), 1, content_length)
                        ELSE all_body_data(data)
                  IN  [type |-> "request",
                       service |-> _extract_service_name(host, dst_ip(connection_key)),
                       method |-> RequestLine[data[1]].method,
                       endpoint |-> RequestLine[data[1]].path,
                       host |-> host,
                       status_code |-> "",
                       flow |-> connection_key,
                       request_headers |-> Headers(data),
                       request_body |-> decode(body_data),
                       response_body |-> <<>>]

\* A lookup that never finds the request.
request_info_forgotten(connections, connection_key, field, default) == default

\* http_connections.get(connection_key, {}) and the .get with a default on
\* its result.
request_info(connections, connection_key, field, default) ==
    IF connection_key \in DOMAIN connections
    THEN connections[connection_key][field] ELSE default

\* _parse_http_response(data, src_ip, dst_ip, src_port, dst_port,
\* connection_key): the caller passes its reverse_key as connection_key.
_parse_http_response(data, packet_key, connection_key, connections) ==
    IF data = <<>> \/ data[1] \notin DOMAIN StatusLine THEN NoEndpoint
    ELSE IF ~_is_complete_http_message(data).is_complete THEN NoEndpoint
    ELSE LET content_length == FirstContentLength(data, AnySpelling)
             body_data ==
                 IF content_length # NoLength /\ content_length <= Len(all_body_data(data))
                 THEN SubSeq(all_body_data(data), 1, content_length)
                 ELSE all_body_data(data)
             host == request_info(connections, connection_key, "host",
                                  dst_ip(packet_key))
         IN  [type |-> "response",
              service |-> request_info(connections, connection_key, "service",
                             _extract_service_name(host, dst_ip(packet_key))),
              method |-> request_info(connections, connection_key, "method", "UNKNOWN"),
              endpoint |-> request_info(connections, connection_key, "endpoint", "/"),
              host |-> host,
              status_code |-> StatusLine[data[1]].status_code,
              flow |-> packet_key,
              request_headers |-> <<>>,
              request_body |-> <<>>,
              response_body |-> decode(body_data)]

\* dict[key] = value and del dict[key] for the keys present.
Put(d, key, value) ==
    [x \in DOMAIN d \cup {key} |-> IF x = key THEN value ELSE d[x]]
Del(d, keys) == [x \in DOMAIN d \ keys |-> d[x]]

\* The flow entry a payload of connection_key is appended to (lines
\* 827-843): its own, else the reverse direction's when that one exists.
stream_key_reverse_never(streams, connection_key) == connection_key
stream_key(streams, connection_key) ==
    IF connection_key \in DOMAIN streams THEN connection_key
    ELSE IF reverse_key(connection_key) \in DOMAIN streams
         THEN reverse_key(connection_key)
    ELSE connection_key

\* The second Content-Length test of _process_tcp_data (lines 903-924): for
\* POST, PUT and PATCH, the decoded body has fewer characters than the
\* first Content-Length spelled in one of two ways.
ValidationFailed(data, endpoint) ==
    /\ endpoint.method \in {"POST", "PUT", "PATCH"}
    /\ FirstContentLength(data, TwoSpellings) # NoLength
    /\ Len(endpoint.request_body) < FirstContentLength(data, TwoSpellings)

\* self.output_queue.put(endpoint), the endpoint carrying a fresh id.
Emit(endpoint) ==
    /\ ncap' = ncap + 1
    /\ output_queue' = Append(output_queue, [id |-> ncap + 1] @@ endpoint)
    /\ thr' = Append(thr, NoThread)
    /\ wlog' = Append(wlog, NoCall)

\* _process_tcp_data(src_ip, src_port, dst_ip, dst_port, data): the handler
\* proper, for one payload of one direction.
process_tcp_data(connection_key, data) ==
    /\ LET key == stream_key(tcp_streams, connection_key)
           complete_data ==
               (IF key \in DOMAIN tcp_streams THEN tcp_streams[key] ELSE <<>>) \o data
           streams == Put(tcp_streams, key, complete_data)
           times == Put(stream_last_packet_time, key, now)
           both == {connection_key, reverse_key(connection_key)}
           request == _parse_http_request(complete_data, connection_key)
           response == _parse_http_response(complete_data, connection_key,
                           reverse_key(connection_key), http_connections)
           Keep == /\ tcp_streams' = streams
                   /\ stream_last_packet_time' = times
                   /\ UNCHANGED <<http_connections, ncap, output_queue, thr, wlog>>
       IN  IF ~_is_complete_http_message(complete_data).is_complete
              THEN Keep
              ELSE IF request # NoEndpoint
              THEN IF ValidationFailed(complete_data, request)
                   THEN Keep
                   ELSE /\ http_connections' =
                              Put(http_connections, connection_key,
                                  [method |-> request.method,
                                   endpoint |-> request.endpoint,
                                   host |-> request.host,
                                   service |-> request.service])
                        /\ Emit(request)
                        /\ tcp_streams' = Del(streams, both)
                        /\ stream_last_packet_time' = Del(times, both)
              ELSE IF response # NoEndpoint
              THEN /\ Emit(response)
                   /\ tcp_streams' = Del(streams, both)
                   /\ stream_last_packet_time' = Del(times, both)
                   /\ UNCHANGED http_connections
              ELSE Keep
    /\ UNCHANGED <<now, local_log, enable_integration, wpc, wcap, wtrace,
                   seen_endpoints, last_cleanup, mount, overlay, config,
                   onboarding_locks, oas_posts, param_vars, key_vars,
                   file_vars, inventory_vars, function_vars, session_vars>>

\* The capture loop calls the handler for the next bytes of one direction.
_process_tcp_data(connection_key, n) ==
    /\ n \in 1..Len(wire[connection_key])
    /\ wire' = [wire EXCEPT ![connection_key] = SubSeq(@, n + 1, Len(@))]
    /\ sent' = [sent EXCEPT ![connection_key] =
                    @ \o SubSeq(wire[connection_key], 1, n)]
    /\ process_tcp_data(connection_key, SubSeq(wire[connection_key], 1, n))
    /\ UNCHANGED sniff_vars

\* Time passes between two packets.
Idle(d) ==
    /\ now + d <= MaxFlowTime
    /\ now' = now + d
    /\ UNCHANGED <<ncap, output_queue, local_log, enable_integration, wpc,
                   wcap, wtrace, seen_endpoints, last_cleanup, wlog,
                   mount, overlay, config, onboarding_locks, thr, oas_posts,
                   decoder_vars, param_vars, key_vars, file_vars,
                   inventory_vars, function_vars, sniff_vars, session_vars>>

\* The traffic of the connection: what the client sends and what the server
\* sends, each delivered to the capture loop in order and cut into payloads
\* at any points.
Post(length, body) == <<"POST /b", length, CRLFCRLF>> \o body
Get == <<"GET /a", CRLFCRLF>>
Ok(body) == <<"HTTP/1.1 200", "Content-Length: 1", CRLFCRLF>> \o body

ClientWires ==
    {<<>>,
     Post("Content-Length: 2", <<"x", "y">>),
     Post("Content-Length: 2", <<"C3", "A9">>),
     Post("Content-Length: 1", <<"E9">>),
     Post("CONTENT-LENGTH: 1", <<"x">>),
     Post("Content-Length: 2", <<"x">>),
     Post("Content-Length: 1", <<"x">>) \o Get,
     Get \o Post("Content-Length: 1", <<"y">>),
     <<"x", "y">>}

ServerWires ==
    {<<>>, Ok(<<"y">>), <<"HTTP/1.1 200", CRLFCRLF>>}

NoTraffic ==
    /\ tcp_streams = <<>>
    /\ stream_last_packet_time = <<>>
    /\ http_connections = <<>>
    /\ wire = [k \in FlowKeys |-> <<>>]
    /\ sent = [k \in FlowKeys |-> <<>>]

Traffic(client, server) ==
    /\ tcp_streams = <<>>
    /\ stream_last_packet_time = <<>>
    /\ http_connections = <<>>
    /\ wire = [k \in FlowKeys |-> IF k = "client-server" THEN client ELSE server]
    /\ sent = [k \in FlowKeys |-> <<>>]

(***************************************************************************)
(* The path parameterizer (DevWebsiteAPIClient._parameterize_path).  A     *)
(* path is a sequence of units: "/", "?", and pieces of a segment: runs of *)
(* digits, runs of letters, the punctuation the function tests for, whole  *)
(* UUIDs in lower and in upper case, and the line feed.                    *)
(***************************************************************************)
Digits == {"7"}
Uuids == {"550e8400-e29b-41d4-a716-446655440000",
          "550E8400-E29B-41D4-A716-446655440000"}
LF == "LF"
Pieces == Digits \cup Uuids \cup {"users", "{", "}", ":", "@", "id", LF}
PathUnits == Pieces \cup {"/", "?"}

\* path.split('?')[0]
RECURSIVE BeforeQuery(_)
BeforeQuery(p) ==
    IF p = <<>> \/ p[1] = "?" THEN <<>>
    ELSE <<p[1]>> \o BeforeQuery(Tail(p))

\* path.split('/'): the segments, an empty one between two neighbouring
\* separators and at either end.
RECURSIVE split(_)
split(p) ==
    IF \A i \in 1..Len(p) : p[i] # "/" THEN <<p>>
    ELSE LET i == CHOOSE i \in 1..Len(p) :
                     p[i] = "/" /\ \A j \in 1..(i - 1) : p[j] # "/"
         IN  <<SubSeq(p, 1, i - 1)>> \o split(SubSeq(p, i + 1, Len(p)))

\* is_parameterized (lines 96-100)
is_parameterized(s) ==
    \/ s[1] = "{" /\ s[Len(s)] = "}"
    \/ s[1] = ":"
    \/ s[1] = "@"

\* What a pattern ^...$ is matched against: "$" matches at the end of the
\* string and in front of a line feed that ends it.
BeforeFinalLF(s) ==
    IF s # <<>> /\ s[Len(s)] = LF THEN SubSeq(s, 1, Len(s) - 1) ELSE s

\* uuid_pattern.match(segment), case-insensitive (line 90)
uuid_pattern(s) == Len(BeforeFinalLF(s)) = 1 /\ BeforeFinalLF(s)[1] \in Uuids

\* numeric_pattern.match(segment) (line 92), on a non-empty segment
numeric_pattern_never(s) == FALSE
numeric_pattern(s) ==
    /\ BeforeFinalLF(s) # <<>>
    /\ \A i \in 1..Len(BeforeFinalLF(s)) : BeforeFinalLF(s)[i] \in Digits

\* The body of the loop over the segments (lines 107-131).
parameterized_segment(segment) ==
    IF segment = <<>> THEN segment
    ELSE IF is_parameterized(segment) THEN segment
    ELSE IF uuid_pattern(segment) THEN <<"{", "id", "}">>
    ELSE IF numeric_pattern(segment) THEN <<"{", "id", "}">>
    ELSE segment

\* A join that writes "?" for the separator.
RECURSIVE join_query(_)
join_query(segments) ==
    IF Len(segments) = 1 THEN segments[1]
    ELSE segments[1] \o <<"?">> \o join_query(Tail(segments))

\* '/'.join(segments)
RECURSIVE join(_)
join(segments) ==
    IF Len(segments) = 1 THEN segments[1]
    ELSE segments[1] \o <<"/">> \o join(Tail(segments))

_parameterize_path(p) ==
    IF p = <<>> \/ p = <<"/">> THEN p
    ELSE LET segments == split(BeforeQuery(p))
         IN  join([i \in 1..Len(segments) |-> parameterized_segment(segments[i])])

\* The paths the parameterizer is applied to.
RECURSIVE Paths(_)
Paths(n) ==
    IF n = 0 THEN {<<>>}
    ELSE Paths(n - 1) \cup
         {Append(p, u) : p \in {q \in Paths(n - 1) : Len(q) = n - 1}, u \in PathUnits}

NoPath ==
    /\ path = <<>>
    /\ parameterized = <<>>

\* The analyzer service has no session and has served no request.
NoSessions ==
    /\ _sessions = [s \in {} |-> 0]
    /\ reply = [op |-> "none", session_id |-> "none", status_code |-> "none"]

\* No function is being applied on its own, and the traffic is not told
\* apart by interface.
NotApplied ==
    /\ args = None
    /\ outcome = None
    /\ pending = <<>>
    /\ sniffed = <<>>
    /\ NoSessions

\* The client parameterizes a path, and parameterizes the result again.
Parameterize ==
    /\ Len(parameterized) < 2
    /\ parameterized' = Append(parameterized,
            _parameterize_path(IF parameterized = <<>> THEN path
                               ELSE parameterized[Len(parameterized)]))
    /\ UNCHANGED <<writer_vars, decoder_vars, path, key_vars, file_vars,
                   inventory_vars, function_vars, sniff_vars, session_vars>>

(***************************************************************************)
(* Initial state: the monitor as constructed.  The mount document is the   *)
(* operator's; the overlay may hold a mapping learned by an earlier run.   *)
(* enable_integration is true for a monitor whose integration components   *)
(* are built, and then the writer runs the handlers below; when it is      *)
(* false the writer only logs.  The constructor as written ends with it    *)
(* false: line 101 calls ServiceMapper.get_dev_api_url, which the class    *)
(* does not define (it defines get_apisec_url), and the handler of that    *)
(* error (lines 126-130) switches the integration off.  Both values are    *)
(* initial states.                                                         *)
(***************************************************************************)
MountDocs ==
    {[apiKey |-> k, autoOnboardNewServices |-> a, serviceMappings |-> NoMappings] :
        k \in {"K", None}, a \in {"True", "False"}}

InitOverlays ==
    {NoMappings, [NoMappings EXCEPT !["s1"] = Mapping("A0", "I0")]}

WriterInit(m, o) ==
    /\ now = 0
    /\ ncap = 0
    /\ output_queue = <<>>
    /\ local_log = <<>>
    /\ enable_integration \in BOOLEAN
    /\ wpc = "idle"
    /\ wcap = NoCapture
    /\ wtrace = <<>>
    /\ seen_endpoints = [h \in {} |-> 0]
    /\ last_cleanup = 0
    /\ wlog = <<>>
    /\ mount = m
    /\ overlay = o
    /\ config = _load_config(mount, overlay)
    /\ onboarding_locks = [s \in AllServices |-> "absent"]
    /\ thr = <<>>
    /\ oas_posts = [s \in AllServices |-> 0]
    /\ api_key = None
    /\ thread_api_key = <<>>
    /\ overlay_malformed = FALSE
    /\ backups = 0
    /\ api_calls = <<>>
    /\ _endpoint_cache = <<>>
    /\ _cache_lock = 0
    /\ listed = <<>>

InitWith(m, o) ==
    /\ WriterInit(m, o)
    /\ NoTraffic
    /\ NoPath
    /\ NotApplied

Init == \E m \in MountDocs, o \in InitOverlays : InitWith(m, o)

(***************************************************************************)
(* Environment: the decoder emits a capture; time passes.                  *)
(***************************************************************************)
\* _process_tcp_data: self.output_queue.put(endpoint)
Enqueue(c, limit) ==
    /\ ncap < limit
    /\ Len(output_queue) < MaxQueue
    /\ ncap' = ncap + 1
    /\ output_queue' = Append(output_queue, WithId(c, ncap + 1))
    /\ thr' = Append(thr, NoThread)
    /\ wlog' = Append(wlog, NoCall)
    /\ UNCHANGED <<decoder_vars, param_vars, key_vars, file_vars,
                   inventory_vars, function_vars, sniff_vars, session_vars,
                   now, local_log, enable_integration, wpc, wcap, wtrace,
                   seen_endpoints, last_cleanup, mount, overlay, config,
                   onboarding_locks, oas_posts>>

\* The clock is read by is_duplicate only, which the writer calls for the
\* capture it has just taken: time that passes elsewhere is time that
\* passes before the writer takes its next capture.
Tick(d) ==
    /\ wpc = "idle"
    /\ output_queue # <<>>
    /\ now + d <= MaxTime
    /\ now' = now + d
    /\ UNCHANGED <<decoder_vars, param_vars, key_vars, file_vars,
                   inventory_vars, function_vars, sniff_vars, session_vars,
                   ncap, output_queue, local_log, enable_integration, wpc,
                   wcap, wtrace, seen_endpoints, last_cleanup, wlog,
                   mount, overlay, config, onboarding_locks, thr, oas_posts>>

(***************************************************************************)
(* The writer thread: _write_outputs takes a capture from the queue and    *)
(* runs _write_endpoint on it.                                             *)
(***************************************************************************)
\* threading.Thread(..., args=(..., api_key, ...)): the worker of capture
\* id carries the api_key the writer read for that capture.
Started(keys, id, key) == (id :> key) @@ keys

\* A writer that does not append to the output file.
write_local_skipped(log, c) == log

\* Lines 241-247: the capture is appended to the output file.
write_local(log, c) == Append(log, c)

\* A writer that takes the next capture only when the workers it started
\* have returned.
WriterTakeAfterWorkers ==
    /\ wpc = "idle"
    /\ \A i \in 1..Len(thr) : thr[i].pc \in {"none", "done"}
    /\ output_queue # <<>>
    /\ wcap' = Head(output_queue)
    /\ output_queue' = Tail(output_queue)
    /\ local_log' = write_local(local_log, Head(output_queue))
    /\ wtrace' = <<"log">>
    /\ wpc' = IF enable_integration THEN "check" ELSE "idle"
    /\ wlog' = [wlog EXCEPT ![Head(output_queue).id].mapped =
                    overlay[Head(output_queue).service] # NoMap,
                             ![Head(output_queue).id].failed =
                    \E i \in CapIds :
                       /\ thr[i].svc = Head(output_queue).service
                       /\ thr[i].res = "onboard_failed"]
    /\ UNCHANGED <<decoder_vars, param_vars, key_vars, file_vars,
                   inventory_vars, function_vars, sniff_vars, session_vars,
                   now, ncap, enable_integration, seen_endpoints, last_cleanup,
                   mount, overlay, config, onboarding_locks, thr, oas_posts>>

\* queue.get, then the append to the output file (lines 241-247), then the
\* test of enable_integration and of the components (lines 250-260).
WriterTake ==
    /\ wpc = "idle"
    /\ output_queue # <<>>
    /\ wcap' = Head(output_queue)
    /\ output_queue' = Tail(output_queue)
    /\ local_log' = write_local(local_log, Head(output_queue))
    /\ wtrace' = <<"log">>
    /\ wpc' = IF enable_integration THEN "check" ELSE "idle"
    /\ wlog' = [wlog EXCEPT ![Head(output_queue).id].mapped =
                    overlay[Head(output_queue).service] # NoMap,
                             ![Head(output_queue).id].failed =
                    \E i \in CapIds :
                       /\ thr[i].svc = Head(output_queue).service
                       /\ thr[i].res = "onboard_failed"]
    /\ UNCHANGED <<decoder_vars, param_vars, key_vars, file_vars,
                   inventory_vars, function_vars, sniff_vars, session_vars,
                   now, ncap, enable_integration, seen_endpoints, last_cleanup,
                   mount, overlay, config, onboarding_locks, thr, oas_posts>>

\* A writer for which no service is the unknown one.
is_unknown_never(service_name) == FALSE

\* Line 283: service_name == "unknown"
is_unknown(service_name) == service_name = "unknown"

\* Lines 270-291: the type test, is_duplicate, the test for the unknown
\* service, get_api_key.
WriterCheck ==
    /\ wpc = "check"
    /\ IF wcap.type # "request"
       THEN /\ wpc' = "idle"
            /\ UNCHANGED <<seen_endpoints, last_cleanup, wlog, wtrace>>
       ELSE LET d == is_duplicate(seen_endpoints, last_cleanup, wcap, now) IN
            /\ seen_endpoints' = d.seen
            /\ last_cleanup' = d.last
            /\ wlog' = [wlog EXCEPT ![wcap.id] =
                          [wlog[wcap.id] EXCEPT !.called = TRUE, !.t = now,
                                                !.result = d.result]]
            /\ wtrace' = Append(wtrace, "dedup")
            /\ wpc' = IF d.result THEN "idle"
                      ELSE IF is_unknown(wcap.service) THEN "idle"
                      ELSE IF get_api_key(config) = None THEN "idle"
                      ELSE "map"
    /\ api_key' = IF wpc' = "map" THEN get_api_key(config) ELSE None
    /\ UNCHANGED thread_api_key
    /\ UNCHANGED <<decoder_vars, param_vars, file_vars, inventory_vars, function_vars, sniff_vars, session_vars,
                   now, ncap, output_queue, local_log, enable_integration, wcap,
                   mount, overlay, config, onboarding_locks, thr, oas_posts>>

\* Lines 296-316: the mapping lookup and, for a mapped service, the push
\* worker.
WriterMap ==
    /\ wpc = "map"
    /\ LET g == get_service_mapping(config, mount, overlay, wcap.service) IN
       /\ config' = g.config
       /\ IF g.result # NoMap
          THEN /\ thr' = [thr EXCEPT ![wcap.id] =
                            PushThread(wcap.service, g.result,
                                       wlog[wcap.id].mapped)]
               /\ thread_api_key' = Started(thread_api_key, wcap.id, api_key)
               /\ api_key' = None
               /\ wtrace' = Append(wtrace, "dispatch")
               /\ wpc' = "idle"
          ELSE /\ wpc' = "auto"
               /\ UNCHANGED <<thr, wtrace, key_vars>>
    /\ UNCHANGED <<decoder_vars, param_vars, file_vars, inventory_vars, function_vars, sniff_vars, session_vars,
                   now, ncap, output_queue, local_log, enable_integration, wcap,
                   seen_endpoints, last_cleanup, wlog, mount, overlay,
                   onboarding_locks, oas_posts>>

\* Lines 317-328 and 355-359: is_auto_onboard_enabled, the lazily created
\* per-service lock, acquire(blocking=False).
WriterAuto ==
    /\ wpc = "auto"
    /\ IF ~is_auto_onboard_enabled(config)
       THEN /\ wpc' = "idle"
            /\ UNCHANGED <<onboarding_locks, wtrace, wlog>>
       ELSE LET l == IF onboarding_locks[wcap.service] = "absent"
                     THEN "free" ELSE onboarding_locks[wcap.service]
            IN  IF acquire(l)
                THEN /\ onboarding_locks' =
                            [onboarding_locks EXCEPT ![wcap.service] = "held"]
                     /\ wpc' = "recheck"
                     /\ UNCHANGED <<wtrace, wlog>>
                ELSE /\ onboarding_locks' =
                            [onboarding_locks EXCEPT ![wcap.service] = l]
                     /\ wpc' = "idle"
                     /\ wtrace' = Append(wtrace, "busy")
                     /\ wlog' = [wlog EXCEPT ![wcap.id].busy = TRUE]
    /\ api_key' = IF wpc' = "idle" THEN None ELSE api_key
    /\ UNCHANGED thread_api_key
    /\ UNCHANGED <<decoder_vars, param_vars, file_vars, inventory_vars, function_vars, sniff_vars, session_vars,
                   now, ncap, output_queue, local_log, enable_integration, wcap,
                   seen_endpoints, last_cleanup, mount, overlay, config, thr,
                   oas_posts>>

\* Lines 329-351: under the lock, the second lookup; the onboarding worker
\* (which takes the lock with it) or, for a mapping found, release and push.
WriterRecheck ==
    /\ wpc = "recheck"
    /\ LET g == get_service_mapping(config, mount, overlay, wcap.service) IN
       /\ config' = g.config
       /\ IF g.result = NoMap
          THEN /\ thr' = [thr EXCEPT ![wcap.id] =
                            OnboardThread(wcap.service,
                                          wlog[wcap.id].mapped)]
               /\ UNCHANGED onboarding_locks
          ELSE /\ onboarding_locks' = release(onboarding_locks, wcap.service)
               /\ thr' = [thr EXCEPT ![wcap.id] =
                            PushThread(wcap.service, g.result,
                                       wlog[wcap.id].mapped)]
    /\ thread_api_key' = Started(thread_api_key, wcap.id, api_key)
    /\ api_key' = None
    /\ wtrace' = Append(wtrace, "dispatch")
    /\ wpc' = "idle"
    /\ UNCHANGED <<decoder_vars, param_vars, file_vars, inventory_vars, function_vars, sniff_vars, session_vars,
                   now, ncap, output_queue, local_log, enable_integration, wcap,
                   seen_endpoints, last_cleanup, wlog, mount, overlay,
                   oas_posts>>

(***************************************************************************)
(* The onboarding worker: _auto_onboard_service for capture i.  It holds   *)
(* the per-service lock the writer acquired until it releases it.          *)
(***************************************************************************)
\* What no worker writes.
WorkerBase ==
    UNCHANGED <<decoder_vars, param_vars, function_vars, sniff_vars, session_vars, key_vars,
                now, ncap, output_queue, local_log, enable_integration, wpc,
                wcap, wtrace, seen_endpoints, last_cleanup, wlog, mount>>

WorkerFrame == WorkerBase /\ UNCHANGED inventory_vars

\* _load_config, line 38: self.config = {} (lines 390 and 428 call it).
LoadReset(i) ==
    /\ thr[i].pc \in {"load1", "reload1"}
    /\ config' = EmptyDict
    /\ thr' = [thr EXCEPT ![i].pc = IF thr[i].pc = "load1" THEN "load2" ELSE "reload2"]
    /\ UNCHANGED <<overlay, onboarding_locks, oas_posts>>
    /\ UNCHANGED file_vars
    /\ WorkerFrame

\* _load_config, lines 41-100: the documents are read and merged; a
\* writable document that is not valid JSON is renamed to a backup.
LoadRead(i) ==
    /\ thr[i].pc \in {"load2", "reload2"}
    /\ config' = _load_config(mount, overlay)
    /\ thr' = [thr EXCEPT ![i].pc = IF thr[i].pc = "load2" THEN "recheck" ELSE "verify"]
    /\ UNCHANGED <<overlay, onboarding_locks, oas_posts>>
    /\ overlay_malformed' = FALSE
    /\ backups' = backups + (IF overlay_malformed THEN 1 ELSE 0)
    /\ WorkerFrame

\* Lines 391-401: the lookup after the reload; a mapping found is used:
\* release, then push.
OnboardRecheck(i) ==
    /\ thr[i].pc = "recheck"
    /\ LET g == get_service_mapping(config, mount, overlay, thr[i].svc) IN
       /\ config' = g.config
       /\ IF g.result # NoMap
          THEN /\ onboarding_locks' = release(onboarding_locks, thr[i].svc)
               /\ thr' = [thr EXCEPT ![i].pc = "push",
                                     ![i].app = g.result.appId,
                                     ![i].inst = g.result.instanceId,
                                     ![i].rel = thr[i].rel + 1]
          ELSE /\ thr' = [thr EXCEPT ![i].pc = "list"]
               /\ UNCHANGED onboarding_locks
    /\ UNCHANGED <<overlay, oas_posts>>
    /\ UNCHANGED file_vars
    /\ WorkerFrame

\* Lines 403-449: get_application_by_name; an application found with an
\* instance is reused, otherwise create_application is next.
OnboardList(i) ==
    /\ thr[i].pc = "list"
    /\ \E existing_app \in ListResults :
          thr' = IF existing_app # NotFound /\ existing_app.instanceId # None
                 THEN [thr EXCEPT ![i].pc = "save_reuse",
                                  ![i].app = existing_app.applicationId,
                                  ![i].inst = existing_app.instanceId]
                 ELSE [thr EXCEPT ![i].pc = "create"]
    /\ UNCHANGED <<overlay, config, onboarding_locks, oas_posts>>
    /\ UNCHANGED file_vars
    /\ WorkerFrame

\* Line 424: set_service_mapping for the application that is reused.
OnboardSaveReuse(i) ==
    /\ thr[i].pc = "save_reuse"
    /\ LET r == set_service_mapping(config, overlay, thr[i].svc, thr[i].app, thr[i].inst) IN
       /\ config' = r.config
       /\ overlay' = r.overlay
    /\ thr' = [thr EXCEPT ![i].pc = "reload1"]
    /\ UNCHANGED <<onboarding_locks, oas_posts>>
    /\ overlay_malformed' = FALSE
    /\ UNCHANGED backups
    /\ WorkerFrame

\* Lines 431-445: the lookup that verifies the saved mapping (its result is
\* only printed), release, then push with the ids that were listed.
OnboardVerify(i) ==
    /\ thr[i].pc = "verify"
    /\ config' = get_service_mapping(config, mount, overlay, thr[i].svc).config
    /\ onboarding_locks' = release(onboarding_locks, thr[i].svc)
    /\ thr' = [thr EXCEPT ![i].pc = "push", ![i].rel = thr[i].rel + 1]
    /\ UNCHANGED <<overlay, oas_posts>>
    /\ UNCHANGED file_vars
    /\ WorkerFrame

\* Lines 453-488: create_application; without a result (or without an
\* instance id) the attempt ends: release.
OnboardCreate(i) ==
    /\ thr[i].pc = "create"
    /\ \E existing \in ListResults, upload \in NewAppIds \cup {None},
          instance \in InstanceResults :
          LET r == create_application(existing, upload, instance) IN
          /\ oas_posts' = [oas_posts EXCEPT ![thr[i].svc] =
                              @ + (IF r.posted THEN 1 ELSE 0)]
          /\ IF r.result # NoMap
             THEN /\ thr' = [thr EXCEPT ![i].pc = "save_new",
                                        ![i].app = r.result.appId,
                                        ![i].inst = r.result.instanceId]
                  /\ UNCHANGED onboarding_locks
             ELSE /\ thr' = [thr EXCEPT ![i] = Finished(thr[i], "onboard_failed", 1)]
                  /\ onboarding_locks' = release(onboarding_locks, thr[i].svc)
    /\ UNCHANGED <<overlay, config>>
    /\ UNCHANGED file_vars
    /\ WorkerFrame

\* Lines 467-473: set_service_mapping for the application created, release.
OnboardSaveNew(i) ==
    /\ thr[i].pc = "save_new"
    /\ LET r == set_service_mapping(config, overlay, thr[i].svc, thr[i].app, thr[i].inst) IN
       /\ config' = r.config
       /\ overlay' = r.overlay
    /\ onboarding_locks' = release(onboarding_locks, thr[i].svc)
    /\ thr' = [thr EXCEPT ![i].pc = "push", ![i].rel = thr[i].rel + 1]
    /\ UNCHANGED oas_posts
    /\ overlay_malformed' = FALSE
    /\ UNCHANGED backups
    /\ WorkerFrame

\* _push_endpoint_to_dev_website: api_client.push_endpoint is called and
\* returns (its result is only printed).
Push(i) ==
    /\ thr[i].pc = "push"
    /\ thr' = [thr EXCEPT ![i] = Finished(thr[i], "pushed", 0)]
    /\ UNCHANGED <<overlay, config, onboarding_locks, oas_posts>>
    /\ UNCHANGED file_vars
    /\ WorkerFrame

Writer == WriterTake \/ WriterCheck \/ WriterMap \/ WriterAuto \/ WriterRecheck

Worker(i) ==
    \/ LoadReset(i)
    \/ LoadRead(i)
    \/ OnboardRecheck(i)
    \/ OnboardList(i)
    \/ OnboardSaveReuse(i)
    \/ OnboardVerify(i)
    \/ OnboardCreate(i)
    \/ OnboardSaveNew(i)
    \/ Push(i)

Next ==
    \/ \E c \in CaptureInputs : Enqueue(c, MaxCaptures)
    \/ \E d \in TickSteps : Tick(d)
    \/ Writer
    \/ \E i \in CapIds : Worker(i)

Spec == Init /\ [][Next]_vars

\* The writer of a monitor without an API key (auto-onboard off, empty
\* overlay), at a finer clock: every
\* request capture reaches is_duplicate and none goes further.
InitDedup ==
    /\ Init
    /\ enable_integration
    /\ mount.apiKey = None
    /\ mount.autoOnboardNewServices = "False"
    /\ overlay = NoMappings

NextDedup ==
    \/ \E c \in CaptureInputs : Enqueue(c, MaxCaptures)
    \/ \E d \in DedupTickSteps : Tick(d)
    \/ WriterTake
    \/ WriterCheck

SpecDedup == InitDedup /\ [][NextDedup]_vars

\* A monitor whose registry holds an API key, auto-onboard and a mapping
\* for the name "unknown".
InitUnknown ==
    InitWith([apiKey |-> "K", autoOnboardNewServices |-> "True",
              serviceMappings |-> NoMappings],
             [NoMappings EXCEPT !["unknown"] = Mapping("A0", "I0")])

\* The same program with at most LiveMaxCaptures captures.
NextLive ==
    \/ \E c \in CaptureInputs : Enqueue(c, LiveMaxCaptures)
    \/ \E d \in TickSteps : Tick(d)
    \/ Writer
    \/ \E i \in CapIds : Worker(i)

\* The workers are threads of the process: a thread that can take its next
\* step eventually takes it (every inventory call returns, with a result
\* or with the error of its timeout).
SpecLive ==
    Init /\ [][NextLive]_vars
         /\ \A i \in 1..LiveMaxCaptures : WF_vars(i \in CapIds /\ Worker(i))

SpecUnknown == InitUnknown /\ [][NextLive]_vars

(***************************************************************************)
(* The capture loop alone: the packets of one connection reach the decoder *)
(* in order, cut at any points, the two directions interleaved, with time  *)
(* passing in between.  The captures it emits stay in output_queue.        *)
(***************************************************************************)
QuietMount ==
    [apiKey |-> None, autoOnboardNewServices |-> "False",
     serviceMappings |-> NoMappings]

InitFlow ==
    \E client \in ClientWires, server \in ServerWires :
        /\ WriterInit(QuietMount, NoMappings)
        /\ ~enable_integration
        /\ Traffic(client, server)
        /\ NoPath
        /\ NotApplied

NextFlow ==
    \/ \E k \in FlowKeys : \E n \in 1..Len(wire[k]) : _process_tcp_data(k, n)
    \/ \E d \in FlowTickSteps : Idle(d)

SpecFlow == InitFlow /\ [][NextFlow]_vars

\* The capture loop handles every packet that arrives, and time passes.
SpecFlowLive ==
    /\ SpecFlow
    /\ \A k \in FlowKeys :
          WF_vars(\E n \in 1..Len(wire[k]) : _process_tcp_data(k, n))
    /\ WF_vars(\E d \in FlowTickSteps : Idle(d))

(***************************************************************************)
(* The parameterizer alone, applied to every path of up to MaxPathLen      *)
(* units and then to its own result.                                       *)
(***************************************************************************)
InitParam ==
    /\ WriterInit(QuietMount, NoMappings)
    /\ ~enable_integration
    /\ NoTraffic
    /\ path \in Paths(MaxPathLen)
    /\ parameterized = <<>>
    /\ NotApplied

NextParam == Parameterize

SpecParam == InitParam /\ [][NextParam]_vars

(***************************************************************************)
(* The inventory client (DevWebsiteAPIClient).  Every request it sends is  *)
(* appended to api_calls with the response it got: the capture id of the   *)
(* worker that sent it (0: no worker), the call, the application, the      *)
(* instance, the method and the path of the endpoint, the API key of the   *)
(* Authorization header, the status, and what the client method that sent  *)
(* it returned to its caller.                                              *)
(***************************************************************************)
Request(by, call, app_id, instance_id, method, endpoint, key, status, returned) ==
    [by |-> by, call |-> call, app |-> app_id, inst |-> instance_id,
     method |-> method, endpoint |-> endpoint, key |-> key, status |-> status,
     returned |-> returned]

\* response.raise_for_status() passes.
Success == "200"

\* What a request can end with: a 2xx response, a 401, another error
\* status, or no response (timeout, network error).
Statuses == {Success, "401", "500", "timeout"}

(***************************************************************************)
(* The endpoint listing cache (DevWebsiteAPIClient.list_endpoints).  An    *)
(* endpoint map is named by the instance it lists and the time at which    *)
(* the inventory produced it.                                              *)
(***************************************************************************)
_cache_ttl == 300

MaxCacheTime == 800
MaxListCalls == 3
CacheTickSteps == {200}
CacheApps == {"A1", "A2"}
CacheInsts == {"I1"}

\* cache_key = f"{app_id}:{instance_id}"
cache_key(app_id, instance_id) == <<app_id, ":", instance_id>>

\* The endpoint map built from the response to a GET at time t.
endpoint_map(key, t) == [of |-> key, at |-> t]

\* {}: what list_endpoints returns when the GET fails.
EmptyMap == [of |-> <<>>, at |-> 0]

\* list_endpoints(app_id, instance_id, api_key): the cached map when there
\* is one and the test of line 153 passes; otherwise one GET, whose map is
\* cached and stamped, or whose error is answered with {}.
list_endpoints(app_id, instance_id, key) ==
    /\ Len(listed) < MaxListCalls
    /\ LET k == cache_key(app_id, instance_id)
           current_time == now
       IN  IF k \in DOMAIN _endpoint_cache
              /\ (current_time - _cache_lock) < _cache_ttl
           THEN /\ listed' = Append(listed,
                       [cache_key |-> k, t |-> current_time, cached |-> TRUE,
                        result |-> _endpoint_cache[k]])
                /\ UNCHANGED <<api_calls, _endpoint_cache, _cache_lock>>
           ELSE \E status \in Statuses :
                /\ api_calls' = Append(api_calls,
                       Request(0, "GET endpoints", app_id, instance_id,
                               None, <<>>, key, status,
                               IF status = Success THEN "map" ELSE "{}"))
                /\ IF status = Success
                   THEN /\ _endpoint_cache' =
                              Put(_endpoint_cache, k, endpoint_map(k, current_time))
                        /\ _cache_lock' = current_time
                        /\ listed' = Append(listed,
                              [cache_key |-> k, t |-> current_time,
                               cached |-> FALSE,
                               result |-> endpoint_map(k, current_time)])
                   ELSE /\ listed' = Append(listed,
                              [cache_key |-> k, t |-> current_time,
                               cached |-> FALSE, result |-> EmptyMap])
                        /\ UNCHANGED <<_endpoint_cache, _cache_lock>>
    /\ UNCHANGED <<writer_vars, decoder_vars, param_vars, key_vars, file_vars,
                   function_vars, sniff_vars, session_vars>>

\* Time passes between two calls of the client.
Elapse(d) ==
    /\ now + d <= MaxCacheTime
    /\ now' = now + d
    /\ UNCHANGED <<ncap, output_queue, local_log, enable_integration, wpc,
                   wcap, wtrace, seen_endpoints, last_cleanup, wlog,
                   mount, overlay, config, onboarding_locks, thr, oas_posts,
                   decoder_vars, param_vars, key_vars, file_vars,
                   inventory_vars, function_vars, sniff_vars, session_vars>>

\* The client alone: listings of two instances are asked for, at any times.
InitCache ==
    /\ WriterInit(QuietMount, NoMappings)
    /\ ~enable_integration
    /\ NoTraffic
    /\ NoPath
    /\ NotApplied

NextCache ==
    \/ \E a \in CacheApps, i \in CacheInsts : list_endpoints(a, i, "K")
    \/ \E d \in CacheTickSteps : Elapse(d)

SpecCache == InitCache /\ [][NextCache]_vars

(***************************************************************************)
(* The workers, call by call.  The steps below take the place of           *)
(* OnboardList, OnboardCreate and Push where the requests themselves       *)
(* matter: each is one request of DevWebsiteAPIClient, with the response   *)
(* the inventory gives, and what the client does with it.                  *)
(***************************************************************************)
\* A client that sends the method as captured.
method_as_captured(method) == method

\* method.lower()
_normalize_method(method) ==
    IF method = "GET" THEN "get" ELSE IF method = "POST" THEN "post" ELSE method

\* _normalize_path: a path that does not start with "/" gets one.
_normalize_path(p) == IF p # <<>> /\ p[1] = "/" THEN p ELSE <<"/">> \o p

\* The path add_endpoint posts for a captured path: push_endpoint
\* normalizes and parameterizes it (lines 643-645), add_endpoint
\* normalizes the result (line 269).
final_path(endpoint) ==
    _normalize_path(_parameterize_path(_normalize_path(endpoint)))

\* The capture a worker was started with (Thread args: endpoint).
endpoint_data(i) == CHOOSE c \in {local_log[n] : n \in 1..Len(local_log)} : c.id = i

\* The endpoint records the inventory holds: one for every add-endpoints
\* request it has answered with success.
Added ==
    {n \in 1..Len(api_calls) :
        api_calls[n].call = "POST add-endpoints" /\ api_calls[n].status = Success}

HasRecord(app_id, instance_id, method, template) ==
    \E n \in Added :
        /\ api_calls[n].app = app_id
        /\ api_calls[n].inst = instance_id
        /\ api_calls[n].method = method
        /\ api_calls[n].endpoint = template

\* The body of a successful bolt/preview response: {} ("empty"), no
\* endpointSuggestions ("none"), a first suggestion with an endpointId
\* ("suggestion") or without one ("no id").  An inventory that holds a
\* record of the capture's method and template suggests it.
PreviewBodies(app_id, instance_id, c) ==
    {"empty", "suggestion", "no id"} \cup
    (IF HasRecord(app_id, instance_id, _normalize_method(c.method),
                  final_path(c.endpoint))
     THEN {} ELSE {"none"})

\* bolt_preview: response.json(), or None for an error status and for an
\* exception (lines 515-522).
bolt_preview(status, body) == IF status = Success THEN body ELSE "None"

\* bolt_commit: True, or False for an error status and for an exception
\* (lines 568-575).
bolt_commit(status) == IF status = Success THEN "True" ELSE "False"

\* add_endpoint: True, or False for an error status and for an exception
\* (lines 330-345).
add_endpoint(status) == IF status = Success THEN "True" ELSE "False"

\* push_endpoint, lines 600-661: the API key tests, bolt_preview, and the
\* choice between add_endpoint, bolt_commit and giving up.
PushPreview(i) ==
    /\ thr[i].pc = "push"
    /\ IF thread_api_key[i] = None
       THEN /\ thr' = [thr EXCEPT ![i] = Finished(thr[i], "push_failed", 0)]
            /\ UNCHANGED api_calls
       ELSE \E status \in Statuses :
            \E body \in PreviewBodies(thr[i].app, thr[i].inst, endpoint_data(i)) :
            LET preview_result == bolt_preview(status, body) IN
            /\ api_calls' = Append(api_calls,
                   Request(i, "POST bolt/preview", thr[i].app, thr[i].inst,
                           endpoint_data(i).method, endpoint_data(i).endpoint,
                           thread_api_key[i], status, preview_result))
            /\ thr' = [thr EXCEPT ![i] =
                   IF preview_result \in {"None", "empty", "no id"}
                   THEN Finished(thr[i], "push_failed", 0)
                   ELSE IF preview_result = "none"
                   THEN [thr[i] EXCEPT !.pc = "add"]
                   ELSE [thr[i] EXCEPT !.pc = "commit"]]
    /\ UNCHANGED <<overlay, config, onboarding_locks, oas_posts, file_vars,
                   _endpoint_cache, _cache_lock, listed>>
    /\ WorkerBase

\* push_endpoint, lines 664-698: bolt_commit with the first suggestion.
PushCommit(i) ==
    /\ thr[i].pc = "commit"
    /\ \E status \in Statuses :
          /\ api_calls' = Append(api_calls,
                 Request(i, "POST bolt/commit", thr[i].app, thr[i].inst,
                         endpoint_data(i).method, endpoint_data(i).endpoint,
                         thread_api_key[i], status, bolt_commit(status)))
          /\ thr' = [thr EXCEPT ![i] =
                 Finished(thr[i], IF bolt_commit(status) = "True"
                                  THEN "pushed" ELSE "push_failed", 0)]
    /\ UNCHANGED <<overlay, config, onboarding_locks, oas_posts, file_vars,
                   _endpoint_cache, _cache_lock, listed>>
    /\ WorkerBase

\* push_endpoint, lines 642-653, and add_endpoint: the method in lower
\* case, the parameterized path; a success drops the instance's listing
\* from the cache.
PushAdd(i) ==
    /\ thr[i].pc = "add"
    /\ \E status \in Statuses :
          /\ api_calls' = Append(api_calls,
                 Request(i, "POST add-endpoints", thr[i].app, thr[i].inst,
                         _normalize_method(endpoint_data(i).method),
                         final_path(endpoint_data(i).endpoint),
                         thread_api_key[i], status, add_endpoint(status)))
          /\ _endpoint_cache' =
                 IF status = Success
                 THEN Del(_endpoint_cache, {cache_key(thr[i].app, thr[i].inst)})
                 ELSE _endpoint_cache
          /\ thr' = [thr EXCEPT ![i] =
                 Finished(thr[i], IF add_endpoint(status) = "True"
                                  THEN "pushed" ELSE "push_failed", 0)]
    /\ UNCHANGED <<overlay, config, onboarding_locks, oas_posts, file_vars,
                   _cache_lock, listed>>
    /\ WorkerBase

\* for attempt in range(max_retries) (api_client.py:973)
max_retries == 5

\* get_application_by_name: GET /v1/applications; None for an error status
\* and for an exception (lines 753-758), else the application of that name
\* or None.
get_application_by_name(status, found) ==
    IF status = Success THEN found ELSE NotFound

\* What a lookup returned, as the log names it.
Named(existing) ==
    IF existing = NotFound THEN "None"
    ELSE IF existing.instanceId = None THEN "application" ELSE "instance"

\* _auto_onboard_service, lines 403-449: get_application_by_name; an
\* application found with an instance is reused, otherwise
\* create_application is next.
ListApplications(i) ==
    /\ thr[i].pc = "list"
    /\ \E status \in Statuses, found \in ListResults :
          LET existing_app == get_application_by_name(status, found) IN
          /\ status # Success => found = NotFound
          /\ api_calls' = Append(api_calls,
                 Request(i, "GET applications", None, None, None, <<>>,
                         thread_api_key[i], status, Named(existing_app)))
          /\ thr' = IF existing_app # NotFound /\ existing_app.instanceId # None
                    THEN [thr EXCEPT ![i].pc = "save_reuse",
                                     ![i].app = existing_app.applicationId,
                                     ![i].inst = existing_app.instanceId]
                    ELSE [thr EXCEPT ![i].pc = "create"]
    /\ UNCHANGED <<overlay, config, onboarding_locks, oas_posts, file_vars,
                   _endpoint_cache, _cache_lock, listed>>
    /\ WorkerBase

\* The attempt ends without a mapping (traffic_monitor.py:478-488):
\* release.
Abandon(i) ==
    /\ thr' = [thr EXCEPT ![i] = Finished(thr[i], "onboard_failed", 1)]
    /\ onboarding_locks' = release(onboarding_locks, thr[i].svc)

\* create_application, lines 779-823: its own get_application_by_name; an
\* application found with an instance is the result, one without gets an
\* instance, none found is uploaded.
CreateLookup(i) ==
    /\ thr[i].pc = "create"
    /\ \E status \in Statuses, found \in ListResults :
          LET existing_app == get_application_by_name(status, found) IN
          /\ status # Success => found = NotFound
          /\ api_calls' = Append(api_calls,
                 Request(i, "GET applications", None, None, None, <<>>,
                         thread_api_key[i], status, Named(existing_app)))
          /\ thr' = IF existing_app = NotFound
                    THEN [thr EXCEPT ![i].pc = "upload"]
                    ELSE IF existing_app.instanceId # None
                    THEN [thr EXCEPT ![i].pc = "save_new",
                                     ![i].app = existing_app.applicationId,
                                     ![i].inst = existing_app.instanceId]
                    ELSE [thr EXCEPT ![i].pc = "instance",
                                     ![i].app = existing_app.applicationId]
    /\ UNCHANGED <<overlay, config, onboarding_locks, oas_posts, file_vars,
                   _endpoint_cache, _cache_lock, listed>>
    /\ WorkerBase

\* create_application, lines 826-888: POST /v1/applications/oas; an error
\* or a response without applicationId ends the attempt.
CreateUpload(i) ==
    /\ thr[i].pc = "upload"
    /\ oas_posts' = [oas_posts EXCEPT ![thr[i].svc] = @ + 1]
    /\ \E status \in Statuses, upload \in NewAppIds \cup {None} :
          /\ status # Success => upload = None
          /\ api_calls' = Append(api_calls,
                 Request(i, "POST applications/oas", None, None, None, <<>>,
                         thread_api_key[i], status, upload))
          /\ IF upload # None
             THEN /\ thr' = [thr EXCEPT ![i].pc = "instance", ![i].app = upload]
                  /\ UNCHANGED onboarding_locks
             ELSE Abandon(i)
    /\ UNCHANGED <<overlay, config, file_vars, _endpoint_cache, _cache_lock,
                   listed>>
    /\ WorkerBase

\* The requests of one call of _create_instance_for_app: the POST, and the
\* fetches of the application that follow it: none when the response
\* carries an instanceId, one after an error, up to max_retries after a
\* response without instanceId (the last one finds the instance, or the
\* retries run out).
RECURSIVE Fetches(_, _, _, _)
Fetches(i, app_id, n, instance) ==
    IF n = 0 THEN <<>>
    ELSE Append(Fetches(i, app_id, n - 1, None),
                Request(i, "GET application", app_id, None, None, <<>>,
                        thread_api_key[i],
                        IF instance = None THEN "500" ELSE Success, instance))

\* _create_instance_for_app, called by create_application at lines 815 and
\* 891: POST instances/batch; the instance id, or None and the attempt
\* ends.
CreateInstance(i) ==
    /\ thr[i].pc = "instance"
    /\ \E status \in Statuses, batch \in InstanceResults,
          n \in 0..max_retries, instance \in InstanceResults :
          /\ status # Success => batch = None /\ n = 1
          /\ status = Success /\ batch # None => n = 0 /\ instance = batch
          /\ status = Success /\ batch = None => n >= 1
          /\ instance = None /\ status = Success /\ batch = None
                => n = max_retries
          /\ api_calls' = Append(api_calls,
                 Request(i, "POST instances/batch", thr[i].app, None, None,
                         <<>>, thread_api_key[i], status, batch))
                 \o Fetches(i, thr[i].app, n, instance)
          /\ IF instance # None
             THEN /\ thr' = [thr EXCEPT ![i].pc = "save_new",
                                        ![i].inst = instance]
                  /\ UNCHANGED onboarding_locks
             ELSE Abandon(i)
    /\ UNCHANGED <<overlay, config, oas_posts, file_vars, _endpoint_cache,
                   _cache_lock, listed>>
    /\ WorkerBase

\* A worker, call by call.
ClientWorker(i) ==
    \/ LoadReset(i)
    \/ LoadRead(i)
    \/ OnboardRecheck(i)
    \/ ListApplications(i)
    \/ OnboardSaveReuse(i)
    \/ OnboardVerify(i)
    \/ CreateLookup(i)
    \/ CreateUpload(i)
    \/ CreateInstance(i)
    \/ OnboardSaveNew(i)
    \/ PushPreview(i)
    \/ PushCommit(i)
    \/ PushAdd(i)

PushMaxCaptures == 2
OnboardMaxCaptures == 1

\* Two concrete variants of one template, of one service.
VariantInputs ==
    {Capture("s1", "GET", <<"/", "users", "/", "7">>, "request"),
     Capture("s1", "GET", <<"/", "users", "/", "7", "7">>, "request")}

KeyedMount ==
    [apiKey |-> "K", autoOnboardNewServices |-> "True",
     serviceMappings |-> NoMappings]

\* A monitor with an API key, its integration built, and a mapping of the
\* service in the overlay: every capture that is not a duplicate gets a
\* push worker, and the workers run concurrently.
InitPush ==
    /\ InitWith(KeyedMount, [NoMappings EXCEPT !["s1"] = Mapping("A0", "I0")])
    /\ enable_integration

NextPush ==
    \/ \E c \in VariantInputs : Enqueue(c, PushMaxCaptures)
    \/ WriterTake
    \/ WriterCheck
    \/ WriterMap
    \/ \E i \in CapIds : PushPreview(i) \/ PushCommit(i) \/ PushAdd(i)

SpecPush == InitPush /\ [][NextPush]_vars

\* The same monitor with auto-onboard and no mapping: the first capture of
\* the service starts an onboarding worker.
InitOnboard ==
    /\ InitWith(KeyedMount, NoMappings)
    /\ enable_integration

NextOnboard ==
    \/ \E c \in VariantInputs : Enqueue(c, OnboardMaxCaptures)
    \/ Writer
    \/ \E i \in CapIds : ClientWorker(i)

SpecOnboard == InitOnboard /\ [][NextOnboard]_vars

(***************************************************************************)
(* The registry documents change under the running monitor: the operator   *)
(* edits the mount document; the writable document gets corrupted.         *)
(***************************************************************************)
NewKeys == {"K2"}
MaxBackups == 2
RegistryMaxCaptures == 2

\* The operator replaces apiKey in the mount document, between two
\* captures.
EditMount(k) ==
    /\ wpc = "idle"
    /\ mount.apiKey # k
    /\ mount' = [mount EXCEPT !.apiKey = k]
    /\ UNCHANGED <<now, ncap, output_queue, local_log, enable_integration, wpc,
                   wcap, wtrace, seen_endpoints, last_cleanup, wlog, overlay,
                   config, onboarding_locks, thr, oas_posts,
                   decoder_vars, param_vars, key_vars, file_vars,
                   inventory_vars, function_vars, sniff_vars, session_vars>>

\* A monitor with key K and a mapping of s1; the operator rotates the key
\* while captures of s1 keep coming.
InitReload ==
    /\ InitWith(KeyedMount, [NoMappings EXCEPT !["s1"] = Mapping("A0", "I0")])
    /\ enable_integration

NextReload ==
    \/ \E c \in VariantInputs : Enqueue(c, RegistryMaxCaptures)
    \/ \E k \in NewKeys : EditMount(k)
    \/ WriterTake
    \/ WriterCheck
    \/ WriterMap
    \/ \E i \in CapIds : PushPreview(i) \/ PushCommit(i) \/ PushAdd(i)

SpecReload == InitReload /\ [][NextReload]_vars

\* The writable document stops being valid JSON (a torn write, a full
\* disk, an edit by hand): none of its mappings can be read any more.
Corrupt ==
    /\ ~overlay_malformed
    /\ backups < MaxBackups
    /\ overlay_malformed' = TRUE
    /\ overlay' = NoMappings
    /\ UNCHANGED <<now, ncap, output_queue, local_log, enable_integration, wpc,
                   wcap, wtrace, seen_endpoints, last_cleanup, wlog, mount,
                   config, onboarding_locks, thr, oas_posts, backups,
                   decoder_vars, param_vars, key_vars, inventory_vars, function_vars, sniff_vars, session_vars>>

\* A mount document that maps s1 itself.
MappingMount ==
    [apiKey |-> "K", autoOnboardNewServices |-> "True",
     serviceMappings |-> [NoMappings EXCEPT !["s1"] = Mapping("A1", "I1")]]

RegistryInputs ==
    {Capture("s1", "GET", "/a", "request"), Capture("s2", "GET", "/a", "request")}

\* A monitor whose mount maps s1 and whose overlay maps it differently;
\* s2 is not mapped and gets onboarded.
InitMalformed ==
    /\ InitWith(MappingMount, [NoMappings EXCEPT !["s1"] = Mapping("A0", "I0")])
    /\ enable_integration

NextMalformed ==
    \/ \E c \in RegistryInputs : Enqueue(c, RegistryMaxCaptures)
    \/ Corrupt
    \/ Writer
    \/ \E i \in CapIds : Worker(i)

SpecMalformed == InitMalformed /\ [][NextMalformed]_vars

(***************************************************************************)
(* Service resolution (TrafficMonitor._extract_service_name) on the text   *)
(* of the Host header.  A host is a sequence of characters; the alphabet   *)
(* has a digit, a letter, the dot and the colon, which is what the code    *)
(* distinguishes.  A request without a Host header reaches the function    *)
(* with the destination address in its place (line 664), a dotted quad.    *)
(***************************************************************************)
HostChars == {"1", "a", ".", ":"}
MaxHostLen == 7

RECURSIVE Texts(_)
Texts(n) ==
    IF n = 0 THEN {<<>>}
    ELSE Texts(n - 1) \cup
         {Append(t, c) : t \in {u \in Texts(n - 1) : Len(u) = n - 1}, c \in HostChars}

\* str.split(sep): the parts of text between the occurrences of sep.
RECURSIVE split_on(_, _)
split_on(text, sep) ==
    LET S == {i \in 1..Len(text) : text[i] = sep}
    IN  IF S = {} THEN <<text>>
        ELSE LET i == CHOOSE j \in S : \A k \in S : j <= k
             IN  <<SubSeq(text, 1, i - 1)>> \o split_on(SubSeq(text, i + 1, Len(text)), sep)

\* The value of a run of decimal digits.
RECURSIVE decimal(_)
decimal(digits) ==
    IF digits = <<>> THEN 0
    ELSE 10 * decimal(SubSeq(digits, 1, Len(digits) - 1)) + 1

\* socket.inet_aton: whether the text is accepted as an IPv4 address.  One
\* to four numbers separated by dots; every number but the last is a byte,
\* the last one fills the remaining bytes (a lone number all four: of the
\* numbers written with the digit 1, those of up to ten digits).
inet_aton(text) ==
    LET parts == split_on(text, ".")
        n == Len(parts)
        room == [k \in 2..4 |-> CASE k = 2 -> 16777215 [] k = 3 -> 65535
                                  [] OTHER -> 255]
        within(digits, limit) == Len(digits) <= 8 /\ decimal(digits) <= limit
    IN  /\ n <= 4
        /\ \A i \in 1..n :
              /\ parts[i] # <<>>
              /\ \A j \in 1..Len(parts[i]) : parts[i][j] = "1"
              /\ IF i < n THEN within(parts[i], 255)
                 ELSE IF n = 1 THEN Len(parts[i]) <= 10
                 ELSE within(parts[i], room[n])

\* host.split(":")[0] and host_without_port.split(".")[0].
host_without_port(http_host) == split_on(http_host, ":")[1]
service_name_from_host(http_host) == split_on(host_without_port(http_host), ".")[1]

\* The result of one resolution: whether the cluster resolver was asked,
\* the label taken from the Host header, the resolver's answer.
NotResolved ==
    [called |-> FALSE, consulted |-> FALSE, label |-> <<>>, resolved |-> None]
FromHost(label) ==
    [called |-> TRUE, consulted |-> FALSE, label |-> label, resolved |-> None]
FromCluster(ip_address) ==
    [called |-> TRUE, consulted |-> TRUE, label |-> <<>>,
     resolved |-> _get_service_name_from_ip(ip_address)]

\* _extract_service_name(host, dst_ip), lines 138-173: the address test is
\* applied to the first label of the host.
extract_service_name(http_host, ip_address) ==
    IF http_host = <<>> THEN FromCluster(ip_address)
    ELSE IF inet_aton(service_name_from_host(http_host))
         THEN FromCluster(ip_address)
         ELSE FromHost(service_name_from_host(http_host))

ExtractServiceName ==
    /\ ~outcome.called
    /\ outcome' = extract_service_name(args.host, args.dst_ip)
    /\ UNCHANGED <<writer_vars, decoder_vars, param_vars, key_vars, file_vars,
                   inventory_vars, sniff_vars, session_vars, args>>

InitService ==
    /\ WriterInit(QuietMount, NoMappings)
    /\ ~enable_integration
    /\ NoTraffic
    /\ NoPath
    /\ args \in {[host |-> h, dst_ip |-> a] : h \in Texts(MaxHostLen), a \in Addresses}
    /\ outcome = NotResolved
    /\ pending = <<>>
    /\ sniffed = <<>>
    /\ NoSessions

NextService == ExtractServiceName

SpecService == InitService /\ [][NextService]_vars

(***************************************************************************)
(* The capture threads (TrafficMonitor.start, lines 1129-1150): one        *)
(* sniffing thread per capture interface, each calling                     *)
(* _process_packet_scapy for the packets of its interface, all of them on  *)
(* the same flow table without a lock.  The interface list holds the pods' *)
(* veth devices and the bridge they are attached to, so a packet of a pod  *)
(* crosses two capture interfaces; a flow seen on one interface only is    *)
(* the other initial state.  A handler runs to its end before the next one *)
(* starts, which is one of the schedules the threads have.                 *)
(***************************************************************************)
Interfaces == {"veth0", "cni0"}

\* What the client sends on the connection: two requests, one after the
\* other.
SniffedWires ==
    {Get \o Post("Content-Length: 1", <<"y">>),
     Post("Content-Length: 1", <<"y">>) \o Get}

\* The ways TCP cuts a byte string into payloads.
RECURSIVE Cuts(_)
Cuts(w) ==
    IF w = <<>> THEN {<<>>}
    ELSE UNION {{<<SubSeq(w, 1, n)>> \o t : t \in Cuts(SubSeq(w, n + 1, Len(w)))} :
                  n \in 1..Len(w)}

\* The packets of one direction, as an interface sees them.
Packets(connection_key, payloads) ==
    [p \in 1..Len(payloads) |-> [key |-> connection_key, data |-> payloads[p]]]

\* _process_packet_scapy(packet) on the thread of interface i: the packet's
\* Raw payload goes to _process_tcp_data.
_process_packet_scapy(i) ==
    /\ pending[i] # <<>>
    /\ process_tcp_data(Head(pending[i]).key, Head(pending[i]).data)
    /\ pending' = [pending EXCEPT ![i] = Tail(@)]
    /\ sniffed' = [sniffed EXCEPT ![i] = Append(@, Head(pending[i]))]
    /\ UNCHANGED <<wire, sent>>

InitSniff ==
    /\ WriterInit(QuietMount, NoMappings)
    /\ ~enable_integration
    /\ NoTraffic
    /\ NoPath
    /\ args = None
    /\ outcome = None
    /\ \E w \in SniffedWires, seen \in {{"veth0"}, {"veth0", "cni0"}} :
       \E payloads \in Cuts(w) :
          pending = [i \in Interfaces |->
                        IF i \in seen THEN Packets("client-server", payloads)
                        ELSE <<>>]
    /\ sniffed = [i \in Interfaces |-> <<>>]
    /\ NoSessions

NextSniff ==
    \/ \E i \in Interfaces : _process_packet_scapy(i)
    \/ WriterTake

SpecSniff == InitSniff /\ [][NextSniff]_vars

(***************************************************************************)
(* The sync payloads of one capture (DevWebsiteAPIClient.                  *)
(* _endpoint_to_bolt_json and the commit selection of push_endpoint).  A   *)
(* capture is the dictionary _parse_http_request builds; dict.get(key,     *)
(* default) reads it.                                                      *)
(***************************************************************************)
get(d, key, default) == IF key \in DOMAIN d THEN d[key] ELSE default

\* str(request_body).strip().rstrip('\n\r') on the bodies of the model.
strip(request_body) ==
    CASE request_body = "{}\n" -> "{}"
      [] request_body = " " -> ""
      [] OTHER -> request_body

\* Header dictionaries of a request capture.
NoHeaders == <<>>
HeaderDicts ==
    {NoHeaders,
     [h \in {"Content-Type"} |-> "text/xml"],
     [h \in {"Accept"} |-> "*/*"],
     [h \in {"Content-Type", "Authorization"} |->
         IF h = "Content-Type" THEN "application/json" ELSE "Bearer t"]}

\* endpoint_data as _parse_http_request returns it (lines 678-696).
RequestCaptures ==
    {[type |-> "request", method |-> m, endpoint |-> "/b",
      request_headers |-> h, request_body |-> b] :
        m \in {"POST", "post"}, h \in HeaderDicts, b \in {"", "{}", "{}\n", " "}}

\* The first suggestion of a preview result.
Suggestions ==
    {[endpointId |-> e, pathParams |-> <<>>, queryParams |-> <<>>] : e \in {"E1", "E2"}}

\* str.upper() on the methods of the model.
upper(method) == IF method = "post" THEN "POST" ELSE method

\* _endpoint_to_bolt_json(endpoint_data): the single request of the
\* envelope; requestBody is None when the key is left out.
_endpoint_to_bolt_json(capture) ==
    LET method == upper(get(capture, "method", "GET"))
        url == get(capture, "endpoint", "/")
        headers == get(capture, "headers", NoHeaders)
        request_body == strip(get(capture, "request_body", ""))
    IN  [method |-> method, url |-> url, requestHeaders |-> headers,
         requestBody |-> IF request_body # "" THEN request_body ELSE None]

\* endpoint_selection of push_endpoint (lines 663-683); requestBodyExample
\* is None when the key is left out.
endpoint_selection(capture, suggestion) ==
    LET headers == get(capture, "headers", NoHeaders)
        request_body == strip(get(capture, "request_body", ""))
    IN  [endpointId |-> suggestion.endpointId,
         include |-> TRUE,
         pathParams |-> get(suggestion, "pathParams", <<>>),
         queryParams |-> get(suggestion, "queryParams", <<>>),
         headers |-> headers,
         contentType |-> IF request_body # ""
                         THEN get(headers, "Content-Type", "application/json")
                         ELSE None,
         content |-> IF request_body # "" THEN request_body ELSE None]

\* push_endpoint builds the envelope for bolt/preview and, for the first
\* suggestion, the selection for bolt/commit.
NoPayloads == [called |-> FALSE, envelope |-> None, selection |-> None]
BuildPayloads ==
    /\ ~outcome.called
    /\ outcome' = [called |-> TRUE,
                   envelope |-> _endpoint_to_bolt_json(args.endpoint_data),
                   selection |-> endpoint_selection(args.endpoint_data,
                                                    args.suggestion)]
    /\ UNCHANGED <<writer_vars, decoder_vars, param_vars, key_vars, file_vars,
                   inventory_vars, sniff_vars, session_vars, args>>

InitPayloads ==
    /\ WriterInit(QuietMount, NoMappings)
    /\ ~enable_integration
    /\ NoTraffic
    /\ NoPath
    /\ args \in {[endpoint_data |-> c, suggestion |-> s] :
                    c \in RequestCaptures, s \in Suggestions}
    /\ outcome = NoPayloads
    /\ pending = <<>>
    /\ sniffed = <<>>
    /\ NoSessions

NextPayloads == BuildPayloads

SpecPayloads == InitPayloads /\ [][NextPayloads]_vars

(***************************************************************************)
(* The de-dup cache on its own: calls of is_duplicate and time steps on a  *)
(* clock fine enough to tell the two clock reads of a sweeping call apart, *)
(* next to a cache that is given the same calls and never sweeps.          *)
(***************************************************************************)
SweepSteps == {300, 3299}
ClockGrain == 1
SweepMaxTime == 4200

SweepCaptures ==
    {Capture("s1", "GET", "/a", "request"), Capture("s1", "GET", "/b", "request")}

\* is_duplicate without lines 65-67: deduplicator.py:70-84 only.
is_duplicate_never_swept(seen, capture, t) ==
    LET h == _generate_hash(capture)
        hit == h \in DOMAIN seen /\ WithinTTL(t - seen[h])
    IN  [result |-> hit,
         seen |-> IF hit THEN seen
                  ELSE [k \in DOMAIN seen \cup {h} |->
                            IF k = h THEN t ELSE seen[k]]]

NoAnswer ==
    [called |-> FALSE, result |-> FALSE, reference |-> FALSE,
     unswept |-> [h \in {} |-> 0], removed |-> {}, expired |-> {},
     late |-> FALSE]

\* time passes between two calls
ClockAdvance(d) ==
    /\ now + d <= SweepMaxTime
    /\ now' = now + d
    /\ UNCHANGED <<decoder_vars, param_vars, key_vars, file_vars,
                   inventory_vars, function_vars, sniff_vars, session_vars,
                   ncap, output_queue, local_log, enable_integration, wpc,
                   wcap, wtrace, seen_endpoints, last_cleanup, wlog,
                   mount, overlay, config, onboarding_locks, thr, oas_posts>>

\* deduplicator.is_duplicate(endpoint_data); the clock advances by e
\* between the read of line 64 and the sweep's read of line 88.
IsDuplicateCall(capture, e) ==
    LET t == now
        t2 == now + e
        d == is_duplicate_read_twice(seen_endpoints, last_cleanup,
                                     capture, t, t2)
        r == is_duplicate_never_swept(outcome.unswept, capture, t)
        due == CleanupDue(t, last_cleanup)
    IN  /\ t2 <= SweepMaxTime
        /\ e > 0 => due
        /\ seen_endpoints' = d.seen
        /\ last_cleanup' = d.last
        /\ now' = t2
        /\ args' = [endpoint_data |-> capture, t |-> t, t2 |-> t2]
        /\ outcome' =
              [called |-> TRUE, result |-> d.result, reference |-> r.result,
               unswept |-> r.seen,
               removed |-> IF due
                           THEN DOMAIN seen_endpoints \
                                DOMAIN _cleanup_expired(seen_endpoints, t2)
                           ELSE {},
               expired |-> IF due
                           THEN {h \in DOMAIN seen_endpoints :
                                    t2 - seen_endpoints[h] >= ttl_seconds}
                           ELSE {},
               late |-> outcome.late \/ e > 0]
        /\ UNCHANGED <<decoder_vars, param_vars, key_vars, file_vars,
                       inventory_vars, sniff_vars, session_vars,
                       ncap, output_queue, local_log, enable_integration, wpc,
                       wcap, wtrace, wlog, mount, overlay, config,
                       onboarding_locks, thr, oas_posts>>

InitSweep ==
    /\ WriterInit(QuietMount, NoMappings)
    /\ enable_integration
    /\ NoTraffic
    /\ NoPath
    /\ args = None
    /\ outcome = NoAnswer
    /\ pending = <<>>
    /\ sniffed = <<>>
    /\ NoSessions

NextSweep ==
    \/ \E d \in SweepSteps : ClockAdvance(d)
    \/ \E c \in SweepCaptures, e \in {0, ClockGrain} : IsDuplicateCall(c, e)

SpecSweep == InitSweep /\ [][NextSweep]_vars

(***************************************************************************)
(* The fingerprint on its own, for captures whose text fields are          *)
(* sequences of units of text (the separator "|" is one unit) and whose    *)
(* request headers carry the names in the spelling of the wire.            *)
(***************************************************************************)
\* '|'.join(key_parts)
RECURSIVE join_bar(_)
join_bar(key_parts) ==
    IF Len(key_parts) = 1 THEN key_parts[1]
    ELSE key_parts[1] \o <<"|">> \o join_bar(Tail(key_parts))

\* str(sorted(important_headers.items())): one unit of text that
\* determines, and is determined by, the set of the items.
important_headers(headers) == {h \in headers : h[1] \in ImportantHeaders}

\* deduplicator.py:29-51 up to the digest: the key string.  The md5 digest
\* is taken to be injective on key strings.
key_string(capture) ==
    LET key_parts == <<capture.service, capture.method, capture.endpoint,
                       capture.status_code, <<capture.type>>>>
    IN  join_bar(IF capture.type = "request"
                 THEN Append(key_parts,
                             <<important_headers(capture.request_headers)>>)
                 ELSE key_parts)

HeaderSets ==
    {{}, {<<"Content-Type", "json">>}, {<<"Content-Type", "xml">>},
     {<<"content-type", "json">>}, {<<"content-type", "xml">>},
     {<<"Content-Type", "json">>, <<"User-Agent", "curl">>}}

\* The captures of requests "GET /a" and "POST /a" to the hosts "s" and
\* "s|GET|/a", of "GET /a|GET|/a", and of responses with status 200.
TextCaptures(ids, bodies) ==
    {[id |-> i, service |-> s, method |-> m, endpoint |-> e, type |-> k,
      status_code |-> IF k = "request" THEN <<>> ELSE <<"200">>,
      request_headers |-> h, request_body |-> b] :
        i \in ids, b \in bodies,
        s \in {<<"s">>, <<"s", "|", "GET", "|", "/a">>},
        m \in {<<"GET">>, <<"POST">>},
        e \in {<<"/a">>, <<"/a", "|", "GET", "|", "/a">>},
        k \in {"request", "response"},
        h \in HeaderSets}

NoHashes == [called |-> FALSE, first |-> <<>>, second |-> <<>>]

\* _generate_hash applied to two captures
GenerateHashes ==
    /\ ~outcome.called
    /\ outcome' = [called |-> TRUE, first |-> key_string(args.first),
                   second |-> key_string(args.second)]
    /\ UNCHANGED <<writer_vars, decoder_vars, param_vars, key_vars, file_vars,
                   inventory_vars, sniff_vars, session_vars, args>>

InitFingerprint ==
    /\ WriterInit(QuietMount, NoMappings)
    /\ ~enable_integration
    /\ NoTraffic
    /\ NoPath
    /\ args \in {[first |-> a, second |-> b] :
                    a \in TextCaptures({1}, {""}),
                    b \in TextCaptures({2}, {"", "x"})}
    /\ outcome = NoHashes
    /\ pending = <<>>
    /\ sniffed = <<>>
    /\ NoSessions

NextFingerprint == GenerateHashes

SpecFingerprint == InitFingerprint /\ [][NextFingerprint]_vars

(***************************************************************************)
(* The three Content-Length scans on one buffer: the completeness check,   *)
(* the request parser and the validation of _process_tcp_data applied to   *)
(* the same bytes.                                                         *)
(***************************************************************************)
MaxHeaderLines == 2
MaxBodyLen == 2

\* The header blocks of at most MaxHeaderLines header lines.
HeaderBlocks ==
    UNION {[1..n -> DOMAIN HeaderLine] : n \in 0..MaxHeaderLines}

\* A request line, a header block, the separator, and body bytes.
Buffers ==
    {<<r>> \o h \o <<CRLFCRLF>> \o [i \in 1..n |-> "x"] :
        r \in DOMAIN RequestLine, h \in HeaderBlocks, n \in 0..MaxBodyLen}

NoVerdict ==
    [called |-> FALSE, complete |-> FALSE, expected |-> NoLength,
     endpoint |-> NoEndpoint, rejected |-> FALSE]

\* Lines 840-924 on a buffer: _is_complete_http_message, then
\* _parse_http_request, then the validation of the parsed body.
ParseBuffer ==
    /\ ~outcome.called
    /\ LET m == _is_complete_http_message(args)
           endpoint == _parse_http_request(args, "client-server")
       IN  outcome' = [called |-> TRUE,
                       complete |-> m.is_complete,
                       expected |-> m.expected,
                       endpoint |-> endpoint,
                       rejected |-> /\ endpoint # NoEndpoint
                                    /\ ValidationFailed(args, endpoint)]
    /\ UNCHANGED <<writer_vars, decoder_vars, param_vars, key_vars, file_vars,
                   inventory_vars, sniff_vars, session_vars, args>>

InitLengths ==
    /\ WriterInit(QuietMount, NoMappings)
    /\ ~enable_integration
    /\ NoTraffic
    /\ NoPath
    /\ args \in Buffers
    /\ outcome = NoVerdict
    /\ pending = <<>>
    /\ sniffed = <<>>
    /\ NoSessions

NextLengths == ParseBuffer

SpecLengths == InitLengths /\ [][NextLengths]_vars

(***************************************************************************)
(* The capture analyzer service: the session endpoints of                  *)
(* app/api/v1/endpoints/sessions.py over SessionManager and SessionStore.  *)
(* A session holds the number of its captures, its status, and whether     *)
(* the clock has passed its expires_at.                                    *)
(***************************************************************************)
MaxSessionCaptures == 2
SessionIds == {"u1", "u2"}
RequestedIds == SessionIds \cup {"invalid-id"}

Answer(op, session_id, status_code) ==
    [op |-> op, session_id |-> session_id, status_code |-> status_code]

\* What SessionStore.get_session returns for an unknown id.
NoSession == [captures |-> 0, status |-> "None", past_expiry |-> FALSE]

\* SessionStore.get_session: the stored session, marked expired when the
\* clock has passed expires_at.
store_get_session(sessions, session_id) ==
    IF session_id \notin DOMAIN sessions THEN NoSession
    ELSE IF sessions[session_id].past_expiry
         THEN [sessions[session_id] EXCEPT !.status = "expired"]
    ELSE sessions[session_id]

\* The store after a lookup: the session object is the stored one, so the
\* mark stays.
AfterLookup(sessions, session_id) ==
    IF session_id \in DOMAIN sessions
    THEN [sessions EXCEPT ![session_id] = store_get_session(sessions, session_id)]
    ELSE sessions

\* SessionManager.start_session
start_session ==
    /\ \E session_id \in SessionIds :
          /\ session_id \notin DOMAIN _sessions
          /\ _sessions' = (session_id :> [captures |-> 0, status |-> "active",
                                          past_expiry |-> FALSE]) @@ _sessions
          /\ reply' = Answer("start", session_id, "201")
    /\ UNCHANGED <<writer_vars, decoder_vars, param_vars, key_vars, file_vars,
                   inventory_vars, function_vars, sniff_vars>>

\* The clock passes the session's expires_at.
PassExpiry(session_id) ==
    /\ session_id \in DOMAIN _sessions
    /\ ~_sessions[session_id].past_expiry
    /\ _sessions' = [_sessions EXCEPT ![session_id].past_expiry = TRUE]
    /\ UNCHANGED <<writer_vars, decoder_vars, param_vars, key_vars, file_vars,
                   inventory_vars, function_vars, sniff_vars, reply>>

\* SessionManager.add_captures(session_id, captures) with n captures
add_captures(session_id, n) ==
    LET session == store_get_session(_sessions, session_id) IN
    /\ IF session = NoSession
       THEN /\ reply' = Answer("add", session_id, "404")
            /\ UNCHANGED _sessions
       ELSE IF session.status \in {"expired", "completed"}
       THEN /\ reply' = Answer("add", session_id, "400")
            /\ _sessions' = AfterLookup(_sessions, session_id)
       ELSE IF session.captures + n > MaxSessionCaptures
       THEN /\ reply' = Answer("add", session_id, "400")
            /\ _sessions' = AfterLookup(_sessions, session_id)
       ELSE /\ reply' = Answer("add", session_id, "200")
            /\ _sessions' = [_sessions EXCEPT ![session_id] =
                                [session EXCEPT !.captures = @ + n]]
    /\ UNCHANGED <<writer_vars, decoder_vars, param_vars, key_vars, file_vars,
                   inventory_vars, function_vars, sniff_vars>>

\* An endpoint whose handler lets an HTTPException pass as it is.
except_Exception_passes_http(status_code) == status_code

\* sessions.py:128-134: "except Exception as e" catches what the try block
\* raised, the HTTPException of line 116 included, and raises status 500.
except_Exception(status_code) == "500"

\* analyze_session(session_id); analysis_ok: whether AnalysisEngine.analyze
\* returns rather than raises.
analyze_session(session_id, analysis_ok) ==
    LET found == store_get_session(_sessions, session_id) IN
    /\ IF found = NoSession
       THEN \* mark_session_analyzing raises 404 before the try block
            /\ reply' = Answer("analyze", session_id, "404")
            /\ UNCHANGED _sessions
       ELSE LET analyzing == [found EXCEPT !.status = "analyzing"]
                \* get_session inside the try block
                session == IF analyzing.past_expiry
                           THEN [analyzing EXCEPT !.status = "expired"]
                           ELSE analyzing
            IN  IF session.captures = 0
                THEN /\ reply' = Answer("analyze", session_id,
                                        except_Exception("400"))
                     /\ _sessions' = [_sessions EXCEPT ![session_id] = session]
                ELSE IF ~analysis_ok
                THEN /\ reply' = Answer("analyze", session_id,
                                        except_Exception("500"))
                     /\ _sessions' = [_sessions EXCEPT ![session_id] = session]
                ELSE \* mark_session_completed
                     /\ reply' = Answer("analyze", session_id, "200")
                     /\ _sessions' = [_sessions EXCEPT ![session_id] =
                                         [session EXCEPT !.status = "completed"]]
    /\ UNCHANGED <<writer_vars, decoder_vars, param_vars, key_vars, file_vars,
                   inventory_vars, function_vars, sniff_vars>>

InitSessions ==
    /\ WriterInit(QuietMount, NoMappings)
    /\ ~enable_integration
    /\ NoTraffic
    /\ NoPath
    /\ NotApplied

NextSessions ==
    \/ start_session
    \/ \E session_id \in SessionIds : PassExpiry(session_id)
    \/ \E session_id \in RequestedIds, n \in 1..MaxSessionCaptures :
          add_captures(session_id, n)
    \/ \E session_id \in RequestedIds, analysis_ok \in BOOLEAN :
          analyze_session(session_id, analysis_ok)

SpecSessions == InitSessions /\ [][NextSessions]_vars

(***************************************************************************)
(* Claims.                                                                 *)
(***************************************************************************)
\* The onboarding workers of service s that have not released its lock.
InFlight(s) == {i \in CapIds : thr[i].kind = "onboard" /\ thr[i].svc = s /\ thr[i].rel = 0}

\* The writer holds the lock of s between its acquire and the hand-over.
WriterHolds(s) == wpc = "recheck" /\ wcap.service = s

Holders(s) == Cardinality(InFlight(s)) + (IF WriterHolds(s) THEN 1 ELSE 0)

Last(seq) == seq[Len(seq)]

\* C1: single-flight onboarding.  For every service at most one holder of
\* its lock exists (an onboarding worker that has not released, or the
\* writer between acquire and hand-over), and the lock is held exactly
\* then; a capture for which the writer found the lock held has started no
\* worker: no onboarding and no sync call.
C1_SingleFlight ==
    /\ \A s \in AllServices :
          /\ Holders(s) <= 1
          /\ (onboarding_locks[s] = "held") <=> (Holders(s) = 1)
    /\ \A j \in CapIds : wlog[j].busy => thr[j] = NoThread

\* C1 witness: a second capture of a service met the held lock while the
\* onboarding worker of the first is still in flight.
C1_Witness ==
    /\ wtrace # <<>>
    /\ Last(wtrace) = "busy"
    /\ InFlight(wcap.service) # {}
    /\ thr[wcap.id] = NoThread

\* C2: per service at most one POST /v1/applications/oas is issued.
C2_AtMostOnePost == \A s \in AllServices : oas_posts[s] <= 1

\* The positions of an onboarding worker at which it calls the inventory
\* to list or create the application, or has done so.
OnboardingCalls ==
    {"list", "save_reuse", "reload1", "reload2", "verify", "create", "save_new"}

\* C3: once a mapping for s is persisted, a capture of s triggers no
\* create_application (no listing, no POST): the worker of a capture of s
\* that the writer took from the queue while the overlay held the mapping
\* of s never lists or creates the application, and when it pushes it
\* pushes to the persisted (appId, instanceId).
C3_MappedGoesToPreview ==
    \A i \in CapIds :
        thr[i].mapped0 =>
            /\ thr[i].pc \notin OnboardingCalls
            /\ thr[i].pc = "push" =>
                  Mapping(thr[i].app, thr[i].inst) = overlay[thr[i].svc]

\* A step of the writer that looks the mapping of wcap.service up.
WriterLookup == wpc \in {"map", "recheck"} /\ wpc' # wpc

\* No _load_config is between its reset of self.config and its read of the
\* documents.
NoReloadInProgress == \A i \in CapIds : thr[i].pc \notin {"load2", "reload2"}

OnboardStarted(i) == IF i \in CapIds THEN thr[i].kind = "onboard" ELSE FALSE

\* The worker of capture i has released the lock of its service.
Released(i) == IF i \in CapIds THEN thr[i].rel = 1 ELSE FALSE

Taken(k) == k <= Len(local_log)

\* The fingerprint of capture k.
Hash(k) == _generate_hash(local_log[k])

\* A worker (sync or onboarding) was started for capture k.
Dispatched(k) == thr[k].kind # "none"

\* The writer has finished _write_endpoint for capture k.
Processed(k) == Taken(k) /\ ~(wpc # "idle" /\ wcap.id = k)

\* The step with which _write_endpoint returns for wcap.
WriterEnds == wpc # "idle" /\ wpc' = "idle"

\* C6: retry after failure.  When the writer finishes a request capture of
\* a service for which an onboarding attempt had ended in error before the
\* capture was taken, with an API key and auto-onboard configured, no
\* mapping and no attempt in flight, it has started an onboarding worker
\* for that capture.
C6_RetryOnNextCapture ==
    [][ (/\ WriterEnds
         /\ wcap.type = "request"
         /\ wlog[wcap.id].failed
         /\ mount.apiKey # None
         /\ mount.autoOnboardNewServices = "True"
         /\ overlay[wcap.service] = NoMap
         /\ InFlight(wcap.service) = {})
        => thr'[wcap.id].kind = "onboard"
      ]_vars

\* The earlier captures with the fingerprint of capture k.
Earlier(k) == {j \in 1..(k - 1) : Hash(j) = Hash(k)}

\* C7: a capture dropped because the per-service lock was held is in the
\* local log; and when the writer finishes the next capture with the same
\* fingerprint, taken when the mapping of the service was persisted, it
\* has started the sync worker for it.
C7_BusyForwardedLater ==
    [][ /\ \A j \in CapIds : wlog[j].busy => (Taken(j) /\ local_log[j].id = j)
        /\ (/\ WriterEnds
            /\ wlog[wcap.id].mapped
            /\ Earlier(wcap.id) # {}
            /\ \A j \in Earlier(wcap.id) :
                  (\A m \in Earlier(wcap.id) : m <= j) => wlog[j].busy)
           => thr'[wcap.id].kind = "push"
      ]_vars

\* Captures i and j, i before j, have the same fingerprint and reached
\* is_duplicate less than TTL seconds apart.
SamePair(i, j) ==
    /\ i < j
    /\ wlog[i].called
    /\ wlog[j].called
    /\ Hash(i) = Hash(j)
    /\ wlog[j].t - wlog[i].t < ttl_seconds

Max(S) == CHOOSE x \in S : \A y \in S : y <= x

\* The earlier captures with the fingerprint of capture j that
\* is_duplicate reported new.
NewBefore(j) == {i \in Earlier(j) : wlog[i].called /\ ~wlog[i].result}

InOrder(tr) ==
    \A n \in 1..Len(tr) :
        /\ tr[n] = "log" <=> n = 1
        /\ tr[n] = "dedup" <=> n = 2
        /\ tr[n] \in {"dispatch", "busy"} <=> n = 3

C11_UnknownNeverForwarded ==
    /\ \A k \in CapIds :
          (Taken(k) /\ local_log[k].service = "unknown") => thr[k] = NoThread
    /\ (wpc # "idle" /\ wcap.service = "unknown") => Last(local_log) = wcap
    /\ \A k \in CapIds : thr[k].svc # "unknown"
    /\ onboarding_locks["unknown"] = "absent"
    /\ oas_posts["unknown"] = 0

\* C11 witness: the writer has finished a request capture of 'unknown' that
\* is_duplicate reported new, with integration on, an API key, auto-onboard
\* and a mapping for the name in the registry.
C11_Witness ==
    \E k \in CapIds :
        /\ Processed(k)
        /\ local_log[k].service = "unknown"
        /\ wlog[k].called
        /\ ~wlog[k].result
        /\ overlay["unknown"] # NoMap
        /\ get_api_key(config) # None
        /\ is_auto_onboard_enabled(config)

(***************************************************************************)
(* The packet decoder.                                                     *)
(***************************************************************************)
\* The captures the decoder has emitted, in order.
Emitted == output_queue

\* The Content-Length values a capture's headers carry, under any spelling.
DeclaredLengths(c) ==
    {c.request_headers[key] :
        key \in {h \in DOMAIN c.request_headers : lower(h) = "content-length"}}

RequestWithBody(c) ==
    c.type = "request" /\ c.method \in {"POST", "PUT", "PATCH"}

\* C12: for every emitted POST/PUT/PATCH request capture whose headers
\* carry a numeric Content-Length N, the byte count of its request_body
\* equals N, never fewer bytes and never more.
C12_BodyBytesEqualContentLength ==
    \A i \in 1..Len(Emitted) :
        RequestWithBody(Emitted[i]) =>
            \A N \in DeclaredLengths(Emitted[i]) :
                byte_count(Emitted[i].request_body) = N

\* Everything one direction carries: what the capture loop has seen of it
\* followed by what it has not.
Carried(k) == sent[k] \o wire[k]

\* The connection carries one request with a Content-Length and nothing
\* else: no second request behind it, nothing from the server.
OneRequest ==
    LET data == Carried("client-server")
    IN  /\ Carried("server-client") = <<>>
        /\ data # <<>>
        /\ data[1] \in DOMAIN RequestLine
        /\ HeaderEnd(data) # 0
        /\ FirstContentLength(data, AnySpelling) # NoLength
        /\ Len(data) <= header_length(data) + FirstContentLength(data, AnySpelling)

\* C13: when the bytes of one request with Content-Length N arrive in order
\* on one direction, cut into segments at any points, no capture is emitted
\* before the segment that brings the buffer to header-length + N bytes,
\* and exactly one request capture is emitted when it arrives, whose body
\* is the N body bytes.
C13_Reassembly ==
    OneRequest =>
        LET data == Carried("client-server")
            N == FirstContentLength(data, AnySpelling)
        IN  IF Len(sent["client-server"]) < header_length(data) + N
            THEN Emitted = <<>>
            ELSE /\ Len(Emitted) = 1
                 /\ Emitted[1].type = "request"
                 /\ Emitted[1].request_body =
                        decode(SubSeq(all_body_data(data), 1, N))

\* The buffer of the flow entry keyed by k, empty when there is no entry.
Buffer(streams, k) == IF k \in DOMAIN streams THEN streams[k] ELSE <<>>

\* The payload the capture loop hands over in this step, for the direction
\* it belongs to.
Payload(k) == SubSeq(sent[k]', Len(sent[k]) + 1, Len(sent[k]'))

\* C14: an ingest that leaves the message of its flow incomplete (no CRLF
\* CRLF yet, or fewer than header-length + Content-Length bytes) emits no
\* capture and discards nothing: the flow buffer afterwards is the previous
\* buffer followed by the payload; and a buffer is cleared only by a
\* successful parse, a step that emits a capture.
C14_IncompleteKeepsBuffer ==
    [][/\ \A k \in FlowKeys :
            (sent[k]' # sent[k]
               /\ ~_is_complete_http_message(
                      Buffer(tcp_streams, k) \o Payload(k)).is_complete)
            => /\ Emitted' = Emitted
               /\ Buffer(tcp_streams', k) = Buffer(tcp_streams, k) \o Payload(k)
        /\ \A e \in DOMAIN tcp_streams :
            e \notin DOMAIN tcp_streams' => Len(Emitted') = Len(Emitted) + 1
      ]_vars

\* Two requests, the second glued to the tail of the first.
GluedRequests ==
    {[first |-> Post("Content-Length: 1", <<"x">>), second |-> Get],
     [first |-> Get, second |-> Post("Content-Length: 1", <<"y">>)]}

\* c is the capture of the request whose bytes are exactly message.
CaptureOf(c, message) ==
    LET r == _parse_http_request(message, "client-server")
    IN  /\ c.type = "request"
        /\ c.method = r.method
        /\ c.endpoint = r.endpoint
        /\ c.request_headers = r.request_headers
        /\ c.request_body = r.request_body

\* C15: after a successful request parse only the parsed bytes are consumed
\* and the remainder is kept for the next parse: once the client has sent
\* two glued requests, there are two captures, one of each request, and the
\* bytes of the second request are neither in the body of the first capture
\* nor lost.
C15_Pipelining ==
    \A g \in GluedRequests :
        (/\ Carried("client-server") = g.first \o g.second
         /\ Carried("server-client") = <<>>
         /\ wire["client-server"] = <<>>)
        => /\ Len(Emitted) = 2
           /\ CaptureOf(Emitted[1], g.first)
           /\ CaptureOf(Emitted[2], g.second)

\* The request captures emitted before the i-th capture on flow key k.
RequestsBefore(i, k) ==
    {j \in 1..(i - 1) : Emitted[j].type = "request" /\ Emitted[j].flow = k}

\* C16: the method and endpoint of every emitted response capture are those
\* of the most recent request capture emitted on the reverse flow key of
\* the response, or UNKNOWN and / when no request was seen on that key.
C16_ResponseMatchesLastRequest ==
    \A i \in 1..Len(Emitted) :
        Emitted[i].type = "response" =>
            LET J == RequestsBefore(i, reverse_key(Emitted[i].flow))
            IN  IF J = {}
                THEN Emitted[i].method = "UNKNOWN" /\ Emitted[i].endpoint = "/"
                ELSE /\ Emitted[i].method = Emitted[Max(J)].method
                     /\ Emitted[i].endpoint = Emitted[Max(J)].endpoint

\* A response was captured after two different requests on its reverse key
\* and carries the method and endpoint of the later one.
C16_Witness ==
    \E i \in 1..Len(Emitted) :
        /\ Emitted[i].type = "response"
        /\ \E j1, j2 \in RequestsBefore(i, reverse_key(Emitted[i].flow)) :
              /\ j1 < j2
              /\ Emitted[j1].endpoint # Emitted[j2].endpoint
              /\ Emitted[i].endpoint = Emitted[j2].endpoint

\* C17: a payload is appended only to the flow entry keyed by its own
\* direction tuple, created if absent; the entry of the reverse direction
\* is never extended by it, also when it holds an incomplete message.
C17_OwnDirectionOnly ==
    [][\A k \in FlowKeys :
          sent[k]' # sent[k] =>
             /\ reverse_key(k) \in DOMAIN tcp_streams' =>
                   /\ reverse_key(k) \in DOMAIN tcp_streams
                   /\ tcp_streams'[reverse_key(k)] = tcp_streams[reverse_key(k)]
             /\ k \in DOMAIN tcp_streams' =>
                   tcp_streams'[k] = Buffer(tcp_streams, k) \o Payload(k)
      ]_vars

\* The connection carries nothing more: its flow entries stay idle from
\* here on, for longer than any timeout.
TrafficEnded == \A k \in FlowKeys : wire[k] = <<>>

\* C18: a flow entry that receives no packet any more is eventually
\* evicted, its buffer and its last-packet timestamp removed, also when its
\* message never completes or its bytes are not HTTP; no entry is retained
\* forever.
C18_IdleEviction ==
    \A k \in FlowKeys :
        (TrafficEnded /\ k \in DOMAIN tcp_streams)
            ~> (k \notin DOMAIN tcp_streams /\ k \notin DOMAIN stream_last_packet_time)

(***************************************************************************)
(* The path parameterizer.                                                 *)
(***************************************************************************)
\* C19: the parameterizer is idempotent: applied to its own result it
\* returns that result, for every path, with a query string, with empty
\* segments, with templated segments, the empty path and / included.
C19_Idempotent ==
    Len(parameterized) = 2 =>
        /\ parameterized[1] = _parameterize_path(path)
        /\ parameterized[2] = parameterized[1]

\* A path with an empty segment, a numeric segment and a query string was
\* parameterized twice, and the first pass rewrote it.
C19_Witness ==
    /\ path = <<"/", "7", "?", "7">>
    /\ Len(parameterized) = 2
    /\ parameterized[1] = <<"/", "{", "id", "}">>

\* A segment made only of digits; a segment that is a UUID, in either case.
OnlyDigits(s) == s # <<>> /\ \A i \in 1..Len(s) : s[i] \in {"7"}
UuidGrammar(s) ==
    s \in {<<"550e8400-e29b-41d4-a716-446655440000">>,
           <<"550E8400-E29B-41D4-A716-446655440000">>}

\* The same, also with one line feed at the end of the segment.
Unterminated(s) ==
    IF s # <<>> /\ s[Len(s)] = "LF" THEN SubSeq(s, 1, Len(s) - 1) ELSE s

\* The rule as stated, and the rule with the line feed.
Stated(s) == OnlyDigits(s) \/ UuidGrammar(s)
WithLF(s) == OnlyDigits(Unterminated(s)) \/ UuidGrammar(Unterminated(s))

\* The result has the segments of p, each rewritten if the rule says so
\* and verbatim otherwise.
SegmentWise(p, result, lf) ==
    /\ Len(split(result)) = Len(split(p))
    /\ \A i \in 1..Len(split(p)) :
          split(result)[i] =
             IF (IF lf THEN WithLF(split(p)[i]) ELSE Stated(split(p)[i]))
             THEN <<"{", "id", "}">> ELSE split(p)[i]

\* The part of a path in front of its first "?", the whole path when it
\* has none.
PathPart(p) ==
    IF \E i \in 1..Len(p) : p[i] = "?"
    THEN SubSeq(p, 1, (CHOOSE i \in 1..Len(p) :
                          p[i] = "?" /\ \A j \in 1..(i - 1) : p[j] # "?") - 1)
    ELSE p

\* C20 as stated: parameterization works per /-separated segment of the
\* path and keeps the number and order of the segments: a segment of digits
\* or a UUID becomes {id}, every other segment (templated, empty, anything
\* else) is kept verbatim, and / maps to /.
C20_PerSegment ==
    Len(parameterized) >= 1 =>
        /\ SegmentWise(path, parameterized[1], FALSE)
        /\ path = <<"/">> => parameterized[1] = <<"/">>

\* C20, amended: the same for the segments of the path in front of its
\* query string, the query string itself being dropped; and a segment of
\* digits or a UUID is rewritten also when one line feed ends it.
C20_PerSegmentOfPathPart ==
    Len(parameterized) >= 1 =>
        /\ SegmentWise(PathPart(path), parameterized[1], TRUE)
        /\ path = <<"/">> => parameterized[1] = <<"/">>

\* An upper-case UUID segment behind an empty one and in front of a query
\* string was rewritten.
C20_Witness ==
    /\ path = <<"/", "550E8400-E29B-41D4-A716-446655440000", "?", "7">>
    /\ Len(parameterized) >= 1
    /\ parameterized[1] = <<"/", "{", "id", "}">>

\* C28: list_endpoints returns a cached listing only if that listing was
\* fetched for the same (appId, instanceId) less than the TTL (300 s)
\* before the call; otherwise the endpoint list is fetched again, whatever
\* calls were made for other instances in between.
C28_CachedListingIsFresh ==
    \A n \in 1..Len(listed) :
        listed[n].cached =>
            /\ listed[n].result.of = listed[n].cache_key
            /\ listed[n].t - listed[n].result.at < _cache_ttl

\* The requests of one kind that the worker of capture i has sent.
CallsOf(i, call) ==
    {n \in 1..Len(api_calls) : api_calls[n].by = i /\ api_calls[n].call = call}

\* The worker of capture i has returned from push_endpoint.
PushEnded(i) == thr[i].pc = "done" /\ thr[i].res \in {"pushed", "push_failed"}

\* The bolt/preview request of the worker of capture i.
PreviewOf(i) == api_calls[CHOOSE n \in CallsOf(i, "POST bolt/preview") : TRUE]

\* The worker of capture i sent commits bolt/commit requests and adds
\* add-endpoints requests, the latter with the method in lower case and
\* the template of the captured path.
Sent(i, commits, adds) ==
    /\ Cardinality(CallsOf(i, "POST bolt/commit")) = commits
    /\ Cardinality(CallsOf(i, "POST add-endpoints")) = adds
    /\ \A n \in CallsOf(i, "POST add-endpoints") :
          /\ api_calls[n].method = "get"
          /\ api_calls[n].endpoint = <<"/", "users", "/", "{", "id", "}">>

C22_OneRecordPerTemplate ==
    \A m, n \in Added :
        /\ api_calls[m].app = api_calls[n].app
        /\ api_calls[m].inst = api_calls[n].inst
        /\ api_calls[m].method = api_calls[n].method
        /\ api_calls[m].endpoint = api_calls[n].endpoint
        => m = n

\* C23: a response with status 401 is translated to a typed Unauthorized
\* error that surfaces to the caller, distinguishable from the outcome of
\* a non-401 HTTP error, and the call is not retried.
C23_UnauthorizedIsTyped ==
    \A m, n \in 1..Len(api_calls) :
        /\ api_calls[m].call \in {"POST bolt/preview", "POST bolt/commit",
                                  "POST add-endpoints"}
        /\ api_calls[m].status = "401"
        => /\ api_calls[m].returned = "Unauthorized"
           /\ api_calls[n].call = api_calls[m].call /\ api_calls[n].status = "500"
                 => api_calls[n].returned # api_calls[m].returned

\* The calls the worker of capture i has sent, by name and in order, the
\* fetches of a single application left out.
CallNames(i) ==
    LET Mine(c) == c.by = i /\ c.call # "GET application"
        mine == SelectSeq(api_calls, Mine)
    IN  [n \in 1..Len(mine) |-> mine[n].call]

\* Every listing the worker of capture i asked for was answered, and
\* listed no application of the service's name.
ListsNoApplication(i) ==
    \A n \in CallsOf(i, "GET applications") :
        api_calls[n].status = Success /\ api_calls[n].returned = "None"

\* C29: fresh service, new endpoint: with an API key, auto-onboard, no
\* mapping and an inventory that lists no application, once the first
\* capture has been pushed with empty suggestions the worker has sent, in
\* this order, exactly one GET /v1/applications, one POST
\* /v1/applications/oas, one POST instances/batch, then (the mapping being
\* persisted) one bolt/preview and one add-endpoints with the lower-case
\* method and the parameterized path.
C29_FreshServiceCalls ==
    \A i \in CapIds :
        /\ thr[i].kind = "onboard"
        /\ PushEnded(i)
        /\ ListsNoApplication(i)
        /\ PreviewOf(i).returned = "none"
        => /\ CallNames(i) = <<"GET applications", "POST applications/oas",
                               "POST instances/batch", "POST bolt/preview",
                               "POST add-endpoints">>
           /\ overlay[thr[i].svc] # NoMap
           /\ Sent(i, 0, 1)

\* The worker of capture i got an error for a listing of the applications.
ListingFailed(i) ==
    \E n \in CallsOf(i, "GET applications") : api_calls[n].status # Success

\* C30: if listing the applications fails (HTTP error, timeout, network),
\* the attempt releases the lock and stops: it sends no POST
\* /v1/applications/oas and writes no mapping.
C30_ListingErrorAbandons ==
    \A i \in CapIds :
        ListingFailed(i) =>
            /\ CallsOf(i, "POST applications/oas") = {}
            /\ overlay[thr[i].svc] = NoMap
            /\ thr[i].pc = "done" => thr[i].res = "onboard_failed"

\* The writer is about to call get_api_key for the capture in hand (line
\* 287): the capture is a request, not a duplicate, of a known service.
ReadsApiKey ==
    /\ wpc = "check"
    /\ wcap.type = "request"
    /\ ~is_duplicate(seen_endpoints, last_cleanup, wcap, now).result
    /\ ~is_unknown(wcap.service)

\* C27: registry reloads are atomic for readers: with an unchanged mount
\* that has apiKey K and autoOnboardNewServices true, the get_api_key the
\* writer is about to call does not return None and the
\* is_auto_onboard_enabled it is about to call does not return false,
\* whatever the onboarding workers are doing.
C27_ReloadIsAtomic ==
    mount.apiKey = "K" /\ mount.autoOnboardNewServices = "True" =>
        /\ ReadsApiKey => get_api_key(config) = "K"
        /\ wpc = "auto" => is_auto_onboard_enabled(config)

\* What a lookup of service s returns when it reflects the documents: the
\* overlay's entry, else the mount's, else none.
CurrentMapping(s) ==
    IF overlay[s] # NoMap THEN overlay[s]
    ELSE IF mount.serviceMappings[s].appId # None
            /\ mount.serviceMappings[s].instanceId # None
    THEN mount.serviceMappings[s]
    ELSE NoMap

\* The services whose mapping some thread is about to look up: the writer
\* at lines 296 and 333, an onboarding worker at lines 391 and 431.
LookedUp ==
    {s \in AllServices :
        \/ wpc \in {"map", "recheck"} /\ wcap.service = s
        \/ \E i \in CapIds : thr[i].pc \in {"recheck", "verify"} /\ thr[i].svc = s}

\* C25: every mapping lookup reflects the current documents:
\* get_service_mapping(s) returns the overlay's entry for s when the
\* overlay has one, otherwise the mount's entry, otherwise none; so a
\* mapping written by set_service_mapping (which stays in the overlay) is
\* returned by every later lookup in any thread.
C25_LookupReflectsDocuments ==
    \A s \in LookedUp :
        get_service_mapping(config, mount, overlay, s).result = CurrentMapping(s)

\* C24: hot reload of the API key: after the operator has changed apiKey
\* in the mount document, the key the writer holds for a capture of the
\* mapped service it takes afterwards, and hands to the push worker, is
\* the new one; and whatever the pushes are answered (a 401 included), the
\* mapping stays as it was.
C24_HotReloadOfApiKey ==
    /\ wpc = "map" => api_key = mount.apiKey
    /\ overlay["s1"] = Mapping("A0", "I0")

\* A step in which some thread looks a mapping up: the writer at lines 296
\* and 333, an onboarding worker at lines 391 and 431.
LookupStep ==
    \/ wpc \in {"map", "recheck"} /\ wpc' # wpc
    \/ \E i \in CapIds :
          thr[i].pc \in {"recheck", "verify"} /\ thr'[i].pc # thr[i].pc

\* C26: when the overlay document is malformed at the time of a mapping
\* lookup, the lookup renames it to a backup and treats it as empty: it
\* returns what the mount document alone provides, and the next lookup no
\* longer finds the malformed file.
C26_MalformedOverlayRotated ==
    [][overlay_malformed /\ LookupStep =>
          /\ ~overlay_malformed'
          /\ backups' = backups + 1
          /\ wpc = "map" /\ wcap.service = "s1" =>
                /\ thr'[wcap.id].app = "A1"
                /\ thr'[wcap.id].inst = "I1"]_vars

\* C31: when the Host header is present and its host name (port removed) is
\* not an IP literal, the service is the first dotted label of the host
\* name and the cluster resolver is not consulted; the resolver is consulted
\* only for an IP literal or an absent Host, and its failure gives
\* 'unknown'.  An IP literal is read as generously as socket.inet_aton
\* reads one.
IsIpLiteral(hostname) == inet_aton(hostname)
C31_ServiceFromHostLabel ==
    outcome.called =>
        LET hostname == host_without_port(args.host)
        IN  /\ (args.host # <<>> /\ ~IsIpLiteral(hostname)) =>
                  /\ ~outcome.consulted
                  /\ outcome.label = split_on(hostname, ".")[1]
            /\ outcome.consulted =>
                  /\ args.host = <<>> \/ IsIpLiteral(hostname)
                  /\ args.dst_ip # "server" => outcome.resolved = "unknown"

\* A worker that was started and has not returned.
Running(i) == thr[i].pc \notin {"none", "done"}

RECURSIVE Flat(_)
Flat(packets) ==
    IF packets = <<>> THEN <<>> ELSE Head(packets).data \o Flat(Tail(packets))
ClientBytes == Flat(sniffed["veth0"] \o pending["veth0"])
Arrival(c) ==
    CHOOSE k \in 1..Len(ClientBytes) :
        /\ ClientBytes[k] \in DOMAIN RequestLine
        /\ RequestLine[ClientBytes[k]] = [method |-> c.method, path |-> c.endpoint]

\* C33: for a given flow direction the captures are emitted in arrival
\* order: of two captures of the same direction, the one enqueued (and so
\* written to the local log) first is of the message that arrived first.
C33_ArrivalOrder ==
    LET emitted == local_log \o output_queue
    IN  \A j, k \in 1..Len(emitted) :
           (j < k /\ emitted[j].flow = emitted[k].flow) =>
               Arrival(emitted[j]) <= Arrival(emitted[k])

\* The same for the flows that one capture interface sees.
OneInterfaceKeepsArrivalOrder == pending["cni0"] = <<>> /\ sniffed["cni0"] = <<>> => C33_ArrivalOrder

\* C34: the sync payload carries the capture's request headers: the
\* envelope's requestHeaders and the commit's headers are the headers of
\* the request capture, and requestBodyExample.contentType is the capture's
\* Content-Type header when it has one, application/json only when it has
\* none.
C34_PayloadCarriesHeaders ==
    outcome.called =>
        LET captured == args.endpoint_data.request_headers
        IN  /\ outcome.envelope.requestHeaders = captured
            /\ outcome.selection.headers = captured
            /\ outcome.selection.content # None =>
                  outcome.selection.contentType =
                     (IF "Content-Type" \in DOMAIN captured
                      THEN captured["Content-Type"] ELSE "application/json")

\* An onboarding attempt that succeeded: the worker of capture i released
\* the lock of its service without having failed.
Onboarded(i) ==
    thr[i].kind = "onboard" /\ thr[i].rel > 0 /\ thr[i].res # "onboard_failed"

\* The writer's second lookup, under the lock it has just acquired.
RecheckUnderLock == wpc = "recheck" /\ wpc' = "idle"

\* The lock of a successful attempt is released with the mapping persisted.
MappingWhenReleased ==
    \A i \in CapIds : Onboarded(i) => overlay[thr[i].svc] # NoMap

\* C35: in every successful onboarding attempt the mapping is persisted
\* before the per-service lock is released, so a capture that acquires the
\* lock afterwards finds the mapping on its recheck under the lock and is
\* forwarded (a push worker) instead of being onboarded again.
C35_PersistedBeforeRelease ==
    /\ []MappingWhenReleased
    /\ [][(RecheckUnderLock /\ \E i \in CapIds : Onboarded(i) /\ thr[i].svc = wcap.service)
             => thr'[wcap.id].kind = "push"]_vars

\* The service of capture k has a complete mapping in the mounted document
\* or in the overlay.
MappedNow(k) ==
    LET m == DictUpdate(mount.serviceMappings, overlay)[local_log[k].service]
    IN  m.appId # None /\ m.instanceId # None

\* Every fingerprint the cache holds is that of a request capture.
OnlyRequestsCached == \A h \in DOMAIN seen_endpoints : h[5] = "request"

\* The mounted document switches auto-onboarding on.
AutoOnboardConfigured == mount.autoOnboardNewServices = "True"

\* C36: a sync or onboarding worker exists for a capture only if the
\* integration is enabled, the capture is a request, is_duplicate was asked
\* and answered no, the service is not the unknown one, an API key is
\* configured and was handed to the worker, and the service is mapped or
\* auto-onboarding is switched on; a response capture has no worker, was
\* never put to is_duplicate, and no fingerprint of a response is cached.
C36_SyncGating ==
    /\ \A k \in CapIds :
          Dispatched(k) =>
             /\ enable_integration
             /\ Taken(k)
             /\ local_log[k].type = "request"
             /\ wlog[k].called /\ ~wlog[k].result
             /\ ~is_unknown(local_log[k].service)
             /\ mount.apiKey # None
             /\ thread_api_key[k] # None
             /\ MappedNow(k) \/ AutoOnboardConfigured
             /\ thr[k].kind = "onboard" => AutoOnboardConfigured
    /\ \A k \in CapIds :
          (Taken(k) /\ local_log[k].type = "response") =>
             ~Dispatched(k) /\ ~wlog[k].called
    /\ OnlyRequestsCached

\* A response capture went through the writer with the integration on, and
\* a request capture of the same run has a worker.
C36_Witness ==
    /\ enable_integration
    /\ \E k \in CapIds :
          /\ Taken(k) /\ local_log[k].type = "response"
          /\ ~(wpc # "idle" /\ wcap.id = k)
    /\ \E k \in CapIds : Dispatched(k) /\ thr[k].kind = "onboard"
    /\ \E k \in CapIds : Dispatched(k) /\ thr[k].kind = "push"

\* A sweep removes the entries whose age, at the sweep's clock read, is at
\* least TTL, and no other.
SweepRemovesExpired == outcome.removed = outcome.expired

\* As long as the clock never advanced inside a call, the sweeping cache
\* answers as the cache that never sweeps.
SameInstantSweepKeepsAnswers ==
    (outcome.called /\ ~outcome.late) => outcome.result = outcome.reference

\* C37: the sweep removes exactly the entries of age at least TTL and
\* never changes an answer: after every sequence of calls and time steps
\* the answer of the cache equals that of a cache that never sweeps.
C37_SweepNeverChangesAnAnswer ==
    outcome.called =>
        /\ outcome.removed = outcome.expired
        /\ outcome.result = outcome.reference

\* The value of the request header of the given name, in the spelling the
\* fingerprint looks for.
HeaderValues(capture, name) ==
    {h[2] : h \in {x \in capture.request_headers : x[1] = name}}

\* The fields the fingerprint is said to depend on.
FingerprintFields(capture) ==
    <<capture.service, capture.method, capture.endpoint, capture.status_code,
      capture.type,
      IF capture.type = "request"
      THEN [name \in ImportantHeaders |-> HeaderValues(capture, name)]
      ELSE <<>>>>

\* Two captures that agree on the fields have the same fingerprint,
\* whatever their id, body and other headers.
AgreeingCapturesShareFingerprint ==
    (outcome.called /\ FingerprintFields(args.first) = FingerprintFields(args.second))
        => outcome.first = outcome.second

\* The header names as HTTP reads them: without regard to case.
canonical_name(name) == IF name = "content-type" THEN "Content-Type" ELSE name

\* Two requests whose Content-Type headers, read without regard to the
\* case of the name, have different values, have different fingerprints.
ContentTypeOfAnySpellingCounts ==
    (/\ outcome.called
     /\ args.first.type = "request" /\ args.second.type = "request"
     /\ {h[2] : h \in {x \in args.first.request_headers :
                          canonical_name(x[1]) = "Content-Type"}}
        # {h[2] : h \in {x \in args.second.request_headers :
                          canonical_name(x[1]) = "Content-Type"}})
        => outcome.first # outcome.second

\* C38: the fingerprint depends only on service, method, endpoint, status,
\* kind and, for requests, the values of the Content-Type, Accept and
\* Authorization headers: two captures that agree on these have the same
\* fingerprint whatever their id, body and other headers, and two request
\* captures that differ in one of them have different fingerprints.
C38_FingerprintFields ==
    outcome.called =>
        /\ FingerprintFields(args.first) = FingerprintFields(args.second)
              => outcome.first = outcome.second
        /\ (/\ args.first.type = "request"
            /\ args.second.type = "request"
            /\ FingerprintFields(args.first) # FingerprintFields(args.second))
              => outcome.first # outcome.second

\* The Content-Length the completeness check reads (lines 511-530), the one
\* the request parser cuts the body with (lines 605-624), and the one the
\* validation compares the body with (lines 908-920).
CompletenessLength(data) == FirstContentLength(data, AnySpelling)
ExtractionLength(data) == LastContentLength(data, AnySpelling)
ValidationLength(data) == FirstContentLength(data, TwoSpellings)

\* With one Content-Length header in one of the spellings "Content-Length"
\* and "content-length" the three scans read the same value.
OneHeaderOneLength ==
    (/\ outcome.called
     /\ Len(header_lines_1(args)) <= 1
     /\ \A i \in 1..Len(header_lines_1(args)) :
           HeaderLine[header_lines_1(args)[i]].key \in TwoSpellings)
        => /\ CompletenessLength(args) = ExtractionLength(args)
           /\ ExtractionLength(args) = ValidationLength(args)

\* C39: the completeness check, the body extraction and the POST/PUT/PATCH
\* validation read the same Content-Length from a buffer, whatever the
\* spelling of the header name and however often the header occurs, so
\* that a buffer judged complete is parsed into a capture whose body has
\* exactly the length the buffer was judged against.
C39_OneContentLength ==
    outcome.called =>
        /\ CompletenessLength(args) = ExtractionLength(args)
        /\ RequestLine[args[1]].method = "POST"
              => ValidationLength(args) = CompletenessLength(args)
        /\ (outcome.complete /\ outcome.expected # NoLength)
              => /\ outcome.endpoint # NoEndpoint
                 /\ Len(outcome.endpoint.request_body)
                       = outcome.expected - header_length(args)

\* C40: analyzing an existing session that has no captures is answered
\* with status 400, and analyzing an unknown session with 404; neither is
\* answered with 500.
C40_AnalyzeEmptySession ==
    reply.op = "analyze" =>
        IF reply.session_id \notin DOMAIN _sessions
        THEN reply.status_code = "404"
        ELSE _sessions[reply.session_id].captures = 0
                => reply.status_code = "400"

\* An unknown session is answered with 404.
UnknownSessionNotFound ==
    (reply.op = "analyze"
     /\ reply.session_id \notin DOMAIN _sessions) => reply.status_code = "404"

====
